---- MODULE Spec2Model ----
(***************************************************************************)
(* Model of the cache coordination engine of nestjs-ttcache:               *)
(*   TTCacheService  (src/src/services/ttcache.service.ts)                 *)
(*   CacheLock       (src/unnamed/part_003, utils/cache-lock.utils)        *)
(*   CacheKeyGenerator.forEntity (src/unnamed/part_002)                    *)
(*   CacheManagerAdapter (src/unnamed/part_000), the CacheProvider the     *)
(*   service always wraps its cache in.                                    *)
(*                                                                         *)
(* Every `await` of the source is a scheduling point: each action below is *)
(* one backend call, one fetch/persist callback or one timer, together     *)
(* with the synchronous code that follows it up to the next `await`.       *)
(* A backend call or a callback may reject; the rejection is an input of   *)
(* the action (\E ok).  Values are naturals: 0 is null, every other value  *)
(* a truthy object; fetchFn resolves to a fresh value on each invocation.  *)
(* The timing samples of recordLoadTime / recordWriteTime are not part of  *)
(* the state.                                                              *)
(***************************************************************************)
EXTENDS Naturals, Integers, Sequences, FiniteSets, Bags, TLC

(* ------------------------------- bounds -------------------------------- *)
\* concurrent callers of the engine
NProcs == 2
\* maxRetries of CacheLock.acquire (the code's default is 50, part_003:10)
MaxRetries == 2
\* backend calls that may reject in one behaviour
MaxFaults == 2
\* options.circuitBreaker.threshold
Threshold == 2
\* distinct keys whose entries may reach their expiry instant in one behaviour
MaxExpiries == 1
\* engine calls made in one behaviour
MaxCalls == 4

(* -------------------------- program constants -------------------------- *)
DefaultTTL == 3600
DefaultStaleTTL == 300
DEFAULT_LOCK_TTL == 30

Procs == 1..NProcs
\* null / undefined; every other value is a (truthy) object
Null == 0
Keys == {"k"}
\* ttl argument: 0 stands for an omitted ttl
TTLs == {0, 60}
KeyPrefixes == {"", "app"}
\* entities handed to writeThrough: class E, with or without @CacheableEntity,
\* with a primary key `id` (0: no id set)
Entities == [cacheable : BOOLEAN, id : {0, 1}]
NoEntity == [cacheable |-> FALSE, id |-> 0]

VARIABLES
  options,      \* TTCacheModuleOptions given to the constructor
  store,        \* the cache backend: key -> [v, ttl]
  statistics,   \* TTCacheService.statistics
  cb,           \* circuitBreakerOpen / circuitBreakerErrors / circuitBreakerResetTimer
  pc,           \* per caller: the await it is suspended at
  call,         \* per caller: the engine operation and its arguments
  loc,          \* per caller: local variables of the running operation
  result,       \* per caller: what the operation returned or threw
  hist,         \* per caller: history of the running call (observation only)
  fetchCount,   \* number of fetchFn invocations so far (observation only)
  faultsLeft,   \* backend calls that may still reject
  expired,      \* keys whose entry has reached its expiry instant
  ncalls,       \* number of engine calls made so far
  cache,        \* MemoryCacheProvider.cache: key -> [value, expiresAt]
  timers,       \* MemoryCacheProvider.timers: key -> instant the timer is due
  timeouts,     \* the event loop: bag of pending timeouts [key, due] armed by the provider
  now,          \* Date.now()
  lastSet,      \* key -> the last set not undone by delete / flush (observation only)
  db,           \* the table of entity class E: the state of the row with id 1 (Null: no row)
  subscribed,   \* whether the CacheSubscriber is registered with the DataSource
  frame,        \* per caller: the CachedBaseEntity method in progress and its position
  transactionCache, \* CacheSubscriber.transactionCache: transaction id -> operations
  arg           \* per caller: the entity handed to CacheKeyGenerator.forEntity

\* the state of the in-process backend and its clock
memVars == <<cache, timers, timeouts, now, lastSet>>

\* the state of the entity layer and of the store behind it
entVars == <<db, subscribed, frame, transactionCache, arg>>

vars == <<options, store, statistics, cb, pc, call, loc, result, hist,
          fetchCount, faultsLeft, expired, ncalls, memVars, entVars>>

(* ------------------------------ the backend ---------------------------- *)
\* CacheManagerAdapter.get: value ?? null
ProviderGet(s, k) == IF k \in DOMAIN s THEN s[k].v ELSE Null

\* CacheManagerAdapter.exists: value !== undefined && value !== null
ProviderExists(s, k) == ProviderGet(s, k) # Null

\* CacheManagerAdapter.set: ttl ? ttl * 1000 : undefined (0: no expiry)
ProviderSet(s, k, v, ttl) ==
  [x \in DOMAIN s \cup {k} |-> IF x = k THEN [v |-> v, ttl |-> ttl] ELSE s[x]]

\* CacheManagerAdapter.delete
ProviderDelete(s, k) == [x \in DOMAIN s \ {k} |-> s[x]]

(* --------------------------- circuit breaker --------------------------- *)
\* openCircuitBreaker: no-op when already open, else open and arm the timer
openCircuitBreaker(c) ==
  IF c.open THEN c ELSE [c EXCEPT !.open = TRUE, !.timer = TRUE]

\* handleCircuitBreakerError that opens the breaker one error late (> for >=)
handleCircuitBreakerError_LateOpen(c) ==
  IF ~options.circuitBreaker THEN c
  ELSE LET c1 == [c EXCEPT !.errors = @ + 1]
       IN  IF c1.errors > Threshold THEN openCircuitBreaker(c1) ELSE c1

\* handleCircuitBreakerError
handleCircuitBreakerError(c) ==
  IF ~options.circuitBreaker THEN c
  ELSE LET c1 == [c EXCEPT !.errors = @ + 1]
       IN  IF c1.errors >= Threshold THEN openCircuitBreaker(c1) ELSE c1

\* closeCircuitBreaker that forgets circuitBreakerErrors = 0
closeCircuitBreaker_KeepErrors(c) == [c EXCEPT !.open = FALSE, !.timer = FALSE]

\* closeCircuitBreaker
closeCircuitBreaker(c) == [open |-> FALSE, errors |-> 0, timer |-> FALSE]

(* ------------------------------- keys ---------------------------------- *)
\* TTCacheService.getFullKey
getFullKey(key) ==
  IF options.keyPrefix # "" THEN options.keyPrefix \o ":" \o key ELSE key

\* CacheLock.getLockKey
getLockKey(key) == "lock:" \o key

\* one lock key shared by the readThrough calls of every key
FetchLockKey_Shared(key) == getLockKey("fetch")

\* the lock key readThrough passes to withLock
FetchLockKey(key) == getLockKey("fetch:" \o key)

\* tryAcquire that stores the lock value without a ttl
tryAcquireSet_NoTTL(s, lockKey, value, ttl) == [x \in DOMAIN s \cup {lockKey} |->
  IF x = lockKey THEN [v |-> value, ttl |-> 0] ELSE s[x]]

\* tryAcquire: await this.cacheProvider.set(lockKey, value, ttl)
tryAcquireSet(s, lockKey, value, ttl) == [x \in DOMAIN s \cup {lockKey} |->
  IF x = lockKey THEN [v |-> value, ttl |-> ttl] ELSE s[x]]

\* release that deletes the lock key only when it holds the caller's value
release_IfOwner(s, lockKey, value) ==
  IF lockKey \in DOMAIN s /\ s[lockKey].v = value
  THEN [x \in DOMAIN s \ {lockKey} |-> s[x]] ELSE s

\* CacheLock.release: cacheProvider.delete(lockKey), whatever value it holds
release(s, lockKey, value) == [x \in DOMAIN s \ {lockKey} |-> s[x]]

\* CacheKeyGenerator.forEntity for class E without @CacheKey fields and without
\* composite-key fields: "" stands for the thrown Error
forEntity(e) == IF e.id # 0 THEN "E:id:" \o ToString(e.id) ELSE ""

\* CacheKeyGenerator.pattern(entityName)
pattern(name) == name \o ":*"

(* ------------------------------ helpers -------------------------------- *)
Val(v) == [kind |-> "value", v |-> v, e |-> "none"]
Err(e) == [kind |-> "error", v |-> Null, e |-> e]
NoResult == [kind |-> "none", v |-> Null, e |-> "none"]
\* a number / a boolean returned by an operation
Num(n) == [kind |-> "number", v |-> n, e |-> "none"]
Bool(b) == [kind |-> "boolean", v |-> IF b THEN 1 ELSE 0, e |-> "none"]

NoCall == [op |-> "none", key |-> "", ttl |-> 0, value |-> Null, entity |-> NoEntity,
           entities |-> << >>, fallback |-> FALSE, startTime |-> 0]
NoLoc == [i |-> 0, data |-> Null, err |-> "none", held |-> FALSE, cont |-> "none",
          skey |-> "", sttl |-> 0]
\* no entity-layer method in progress; no entity handed to the key generator
NoFrame == [op |-> "none", step |-> 0, v |-> Null, prev |-> Null, event |-> "none",
            tx |-> "none", tid |-> Null]
NoArg == << >>

NoHist == [fetches |-> 0, fetchFailed |-> FALSE, touched |-> FALSE, openOps |-> FALSE,
           entryOpen |-> FALSE, lockFailed |-> FALSE, sets |-> FALSE,
           persisted |-> "no", hit |-> 0, miss |-> 0, shadow |-> Null,
           caught |-> 0, wrote |-> {}, fnRan |-> FALSE, fbRan |-> FALSE,
           released |-> FALSE, robbed |-> FALSE, tookOver |-> FALSE]

\* a backend call may reject while rejections are left
MayFail(ok) == ok \/ faultsLeft > 0

\* history of a backend call by the caller
Touch(h) == [h EXCEPT !.touched = TRUE, !.openOps = @ \/ cb.open]

(* -------------------------------- Init --------------------------------- *)
Configs ==
  [stampedeProtection : BOOLEAN, staleWhileRevalidate : BOOLEAN,
   keyPrefix : KeyPrefixes, circuitBreaker : BOOLEAN, invalidateRelations : BOOLEAN]

\* the engine after its constructor has run, callers idle
Constructed ==
  /\ options \in Configs
  /\ store = << >>
  /\ statistics = [hits |-> 0, misses |-> 0, writes |-> 0, deletes |-> 0,
                   errors |-> 0, hitRate |-> [num |-> 0, den |-> 1],
                   averageLoadTime |-> [num |-> 0, den |-> 1],
                   averageWriteTime |-> [num |-> 0, den |-> 1],
                   loadTimes |-> << >>, writeTimes |-> << >>]
  /\ cb = [open |-> FALSE, errors |-> 0, timer |-> FALSE]
  /\ pc = [p \in Procs |-> "idle"]
  /\ call = [p \in Procs |-> NoCall]
  /\ loc = [p \in Procs |-> NoLoc]
  /\ result = [p \in Procs |-> NoResult]
  /\ hist = [p \in Procs |-> NoHist]
  /\ fetchCount = 0
  /\ expired = {}
  /\ ncalls = 0
  /\ cache = << >>
  /\ timers = << >>
  /\ timeouts = EmptyBag
  /\ now = 0
  /\ lastSet = << >>
  /\ db = Null
  /\ subscribed = FALSE
  /\ frame = [p \in Procs |-> NoFrame]
  /\ transactionCache = << >>
  /\ arg = [p \in Procs |-> NoArg]

\* the backend may reject up to MaxFaults calls
Init == Constructed /\ faultsLeft = MaxFaults

(* ------------------------- engine get (one await) ----------------------- *)
\* get without the circuitBreakerOpen check
get_NoBreakerCheck(key, ok) ==
  IF ok THEN [v |-> ProviderGet(store, getFullKey(key)), c |-> cb, backend |-> TRUE]
  ELSE [v |-> Null, c |-> handleCircuitBreakerError(cb), backend |-> TRUE]

\* TTCacheService.get(key): [v: the value returned, c: the breaker afterwards,
\* backend: whether provider.get was called]; ok: provider.get resolved
get(key, ok) ==
  IF cb.open THEN [v |-> Null, c |-> cb, backend |-> FALSE]
  ELSE IF ok THEN [v |-> ProviderGet(store, getFullKey(key)), c |-> cb, backend |-> TRUE]
  ELSE [v |-> Null, c |-> handleCircuitBreakerError(cb), backend |-> TRUE]

\* updateHitRate: hitRate = total > 0 ? hits / total : 0, kept as a fraction
updateHitRate(s) ==
  LET total == s.hits + s.misses
  IN  [s EXCEPT !.hitRate = IF total > 0 THEN [num |-> s.hits, den |-> total]
                            ELSE [num |-> 0, den |-> 1]]

\* cacheTTL that drops the caller's ttl
cacheTTL_IgnoreArg(ttl) == DefaultTTL

\* cacheTTL of set: ttl || this.options.defaultTTL
cacheTTL(ttl) == IF ttl # 0 THEN ttl ELSE DefaultTTL

\* where withLock goes when acquire returned false: onLockFailed of readThrough
LockFailedPc == IF options.staleWhileRevalidate THEN "lf_stale" ELSE "lf_fetch"

\* first iteration of the acquire loop (for i = 0; i < maxRetries)
AcquireStartPc == IF 0 < MaxRetries THEN "acq_exists" ELSE LockFailedPc

\* what fetchFn may do: resolve to an object, resolve to null, reject
FetchOutcomes == {"value", "null", "throw"}
FetchHist(h, out) ==
  [h EXCEPT !.fetches = @ + 1, !.fetchFailed = @ \/ (out = "throw")]

(* --------------------------- the sample windows ------------------------- *)
\* the number of samples a window keeps
WindowSize == 100

RECURSIVE SumSeq(_)
\* times.reduce((a, b) => a + b, 0)
SumSeq(times) == IF times = << >> THEN 0 ELSE Head(times) + SumSeq(Tail(times))

\* push(time); if (length > 100) shift(): the window afterwards
pushSample(times, time) ==
  LET pushed == Append(times, time)
  IN  IF Len(pushed) > WindowSize THEN Tail(pushed) ELSE pushed

\* reduce(...) / length, as the fraction [num, den]
average(times) == [num |-> SumSeq(times), den |-> Len(times)]

\* recordLoadTime that lets the window grow
recordLoadTime_NoShift(s, time) ==
  LET w == Append(s.loadTimes, time)
  IN  [s EXCEPT !.loadTimes = w, !.averageLoadTime = average(w)]

\* recordLoadTime(time): statistics afterwards
recordLoadTime(s, time) ==
  LET w == pushSample(s.loadTimes, time)
  IN  [s EXCEPT !.loadTimes = w, !.averageLoadTime = average(w)]

\* recordWriteTime(time): statistics afterwards
recordWriteTime(s, time) ==
  LET w == pushSample(s.writeTimes, time)
  IN  [s EXCEPT !.writeTimes = w, !.averageWriteTime = average(w)]

\* resetStatistics(): statistics afterwards
resetStatistics ==
  [hits |-> 0, misses |-> 0, writes |-> 0, deletes |-> 0, errors |-> 0,
   hitRate |-> [num |-> 0, den |-> 1],
   averageLoadTime |-> [num |-> 0, den |-> 1],
   averageWriteTime |-> [num |-> 0, den |-> 1],
   loadTimes |-> << >>, writeTimes |-> << >>]

\* Date.now() - startTime of the call of p
elapsed(p) == now - call[p].startTime

(* ---------------- how a readThrough call ends (synchronous) ------------- *)
\* return v from readThrough
RtReturn(p, v, s, c) ==
  /\ statistics' = s
  /\ cb' = c
  /\ pc' = [pc EXCEPT ![p] = "done"]
  /\ result' = [result EXCEPT ![p] = Val(v)]

\* the catch block of readThrough: errors++, handleCircuitBreakerError, then
\* fetch again if the breaker is open, else rethrow
RtCatch(p, e, s, c) ==
  LET c2 == handleCircuitBreakerError(c)
  IN  /\ statistics' = [s EXCEPT !.errors = @ + 1]
      /\ cb' = c2
      /\ IF c2.open
         THEN /\ pc' = [pc EXCEPT ![p] = "catch_fetch"]
              /\ result' = result
         ELSE /\ pc' = [pc EXCEPT ![p] = "done"]
              /\ result' = [result EXCEPT ![p] = Err(e)]

\* what follows the `await this.set(...)` of the caller, by call site
SetDone(p, s, c) ==
  CASE loc[p].cont = "rt" ->
         RtReturn(p, loc[p].data, recordLoadTime(s, elapsed(p)), c)
    [] loc[p].cont = "lk" ->
         /\ statistics' = recordLoadTime(s, elapsed(p))
         /\ cb' = c /\ result' = result
         /\ pc' = [pc EXCEPT ![p] = "release"]
    [] loc[p].cont = "wt" ->
         /\ cb' = c
         /\ IF options.invalidateRelations
            THEN /\ statistics' = s
                 /\ pc' = [pc EXCEPT ![p] = "inv"] /\ result' = result
            ELSE /\ statistics' = recordWriteTime(s, elapsed(p))
                 /\ pc' = [pc EXCEPT ![p] = "done"]
                 /\ result' = [result EXCEPT ![p] = Val(call[p].value)]
    [] OTHER ->
         /\ statistics' = s /\ cb' = c
         /\ pc' = [pc EXCEPT ![p] = "done"]
         /\ result' = [result EXCEPT ![p] = Val(Null)]

(* ------------------------------ readThrough ----------------------------- *)
\* const cached = await this.get(key); hit: hits++, updateHitRate, return;
\* miss: misses++, then withLock (stampedeProtection) or fetch directly
RtGet(p) ==
  /\ pc[p] = "rt_get"
  /\ \E ok \in BOOLEAN :
       /\ ok \/ (~cb.open /\ faultsLeft > 0)
       /\ faultsLeft' = IF ok THEN faultsLeft ELSE faultsLeft - 1
       /\ LET g == get(call[p].key, ok)
              h0 == [hist[p] EXCEPT !.entryOpen = cb.open]
              h1 == IF g.backend THEN Touch(h0) ELSE h0
          IN  IF g.v # Null
              THEN /\ RtReturn(p, g.v,
                        updateHitRate([statistics EXCEPT !.hits = @ + 1]), g.c)
                   /\ hist' = [hist EXCEPT ![p] = [h1 EXCEPT !.hit = @ + 1]]
              ELSE /\ statistics' = [statistics EXCEPT !.misses = @ + 1]
                   /\ cb' = g.c
                   /\ result' = result
                   /\ pc' = [pc EXCEPT ![p] =
                               IF options.stampedeProtection THEN AcquireStartPc
                               ELSE "rt_fetch"]
                   /\ hist' = [hist EXCEPT ![p] = [h1 EXCEPT !.miss = @ + 1]]
  /\ UNCHANGED <<options, store, call, loc, fetchCount, expired, memVars, entVars, ncalls>>

\* the lock key of the running call: readThrough locks `fetch:${key}`, a direct
\* CacheLock call locks the key it is given
LockKeyOf(p) ==
  IF call[p].op = "readThrough" THEN FetchLockKey(call[p].key)
  ELSE getLockKey(call[p].key)

\* withLock that runs fn although acquire returned false
AcquireFailed_RunFn(p) ==
  CASE call[p].op = "withLock" ->
         /\ pc' = [pc EXCEPT ![p] = "wl_fn"]
         /\ result' = result
    [] call[p].op = "acquire" ->
         /\ pc' = [pc EXCEPT ![p] = "done"]
         /\ result' = [result EXCEPT ![p] = Bool(FALSE)]
    [] OTHER ->
         /\ pc' = [pc EXCEPT ![p] = LockFailedPc]
         /\ result' = result

\* acquire returned false: acquire's caller gets false; withLock awaits
\* onLockFailed when it is supplied (readThrough always supplies it) and throws
\* `Failed to acquire lock` otherwise
AcquireFailed(p) ==
  CASE call[p].op = "withLock" ->
         IF call[p].fallback
         THEN /\ pc' = [pc EXCEPT ![p] = "wl_failed"]
              /\ result' = result
         ELSE /\ pc' = [pc EXCEPT ![p] = "done"]
              /\ result' = [result EXCEPT ![p] = Err("lock")]
    [] call[p].op = "acquire" ->
         /\ pc' = [pc EXCEPT ![p] = "done"]
         /\ result' = [result EXCEPT ![p] = Bool(FALSE)]
    [] OTHER ->
         /\ pc' = [pc EXCEPT ![p] = LockFailedPc]
         /\ result' = result

\* acquire returned true: acquire's caller gets true; withLock runs fn (the lock
\* body of readThrough starts with its double check)
Acquired(p) ==
  CASE call[p].op = "withLock" ->
         /\ pc' = [pc EXCEPT ![p] = "wl_fn"]
         /\ result' = result
    [] call[p].op = "acquire" ->
         /\ pc' = [pc EXCEPT ![p] = "done"]
         /\ result' = [result EXCEPT ![p] = Bool(TRUE)]
    [] OTHER ->
         /\ pc' = [pc EXCEPT ![p] = "lk_get"]
         /\ result' = result

\* a failed attempt that does not advance the loop counter
AttemptFailed_NoIncrement(p) ==
  /\ loc' = loc
  /\ pc' = [pc EXCEPT ![p] = "acq_exists"]
  /\ result' = result
  /\ hist' = [hist EXCEPT ![p] = Touch(hist[p])]

\* a failed attempt of acquire: delay, i++, next attempt or return false
AttemptFailed(p) ==
  LET i1 == loc[p].i + 1
  IN  /\ loc' = [loc EXCEPT ![p].i = i1]
      /\ IF i1 < MaxRetries
         THEN /\ pc' = [pc EXCEPT ![p] = "acq_exists"]
              /\ result' = result
              /\ hist' = [hist EXCEPT ![p] = Touch(hist[p])]
         ELSE /\ AcquireFailed(p)
              /\ hist' = [hist EXCEPT ![p] = [Touch(hist[p]) EXCEPT !.lockFailed = TRUE]]

\* tryAcquire, first await: const exists = await cacheProvider.exists(lockKey)
AcqExists(p) ==
  /\ pc[p] = "acq_exists"
  /\ \E ok \in BOOLEAN :
       /\ MayFail(ok)
       /\ faultsLeft' = IF ok THEN faultsLeft ELSE faultsLeft - 1
       /\ IF ok /\ ~ProviderExists(store, LockKeyOf(p))
          THEN /\ pc' = [pc EXCEPT ![p] = "acq_set"]
               \* (observation: the lock was found free after it had expired under
               \* a caller that is still between acquire and release)
               /\ hist' = [hist EXCEPT ![p] = [Touch(hist[p]) EXCEPT !.tookOver =
                             /\ LockKeyOf(p) \in expired
                             /\ \E q \in Procs \ {p} :
                                  loc[q].held /\ LockKeyOf(q) = LockKeyOf(p)]]
               /\ loc' = loc
               /\ result' = result
          ELSE AttemptFailed(p)
  /\ UNCHANGED <<options, store, statistics, cb, call, fetchCount, expired, memVars, entVars, ncalls>>

\* tryAcquire, second await: await cacheProvider.set(lockKey, value, ttl)
AcqSet(p) ==
  /\ pc[p] = "acq_set"
  /\ \E ok \in BOOLEAN :
       /\ MayFail(ok)
       /\ faultsLeft' = IF ok THEN faultsLeft ELSE faultsLeft - 1
       /\ IF ok
          THEN /\ store' = tryAcquireSet(store, LockKeyOf(p), p, DEFAULT_LOCK_TTL)
               /\ Acquired(p)
               /\ loc' = [loc EXCEPT ![p].held = TRUE]
               /\ hist' = [hist EXCEPT ![p] = Touch(hist[p])]
          ELSE /\ store' = store
               /\ AttemptFailed(p)
  /\ UNCHANGED <<options, statistics, cb, call, fetchCount, expired, memVars, entVars, ncalls>>

\* lock body, double check: const cachedAfterLock = await this.get(key)
LkGet(p) ==
  /\ pc[p] = "lk_get"
  /\ \E ok \in BOOLEAN :
       /\ ok \/ (~cb.open /\ faultsLeft > 0)
       /\ faultsLeft' = IF ok THEN faultsLeft ELSE faultsLeft - 1
       /\ LET g == get(call[p].key, ok)
          IN  /\ cb' = g.c
              /\ hist' = [hist EXCEPT ![p] = IF g.backend THEN Touch(@) ELSE @]
              /\ IF g.v # Null
                 THEN /\ loc' = [loc EXCEPT ![p].data = g.v]
                      /\ pc' = [pc EXCEPT ![p] = "release"]
                 ELSE /\ loc' = loc
                      /\ pc' = [pc EXCEPT ![p] = "lk_fetch"]
  /\ UNCHANGED <<options, store, statistics, call, result, fetchCount, expired, memVars, entVars, ncalls>>

\* lock body: const data = await fetchFn(); if (data) await this.set(...);
\* a rejection leaves fn and runs the finally of withLock
LkFetch(p) ==
  /\ pc[p] = "lk_fetch"
  /\ \E out \in FetchOutcomes :
       /\ fetchCount' = fetchCount + 1
       /\ hist' = [hist EXCEPT ![p] = FetchHist(@, out)]
       /\ CASE out = "value" ->
                 /\ loc' = [loc EXCEPT ![p].data = fetchCount + 1, ![p].cont = "lk",
                                       ![p].skey = call[p].key,
                                       ![p].sttl = cacheTTL(call[p].ttl)]
                 /\ pc' = [pc EXCEPT ![p] = "set"]
                 /\ statistics' = statistics
            [] out = "null" ->
                 /\ loc' = [loc EXCEPT ![p].data = Null]
                 /\ pc' = [pc EXCEPT ![p] = "release"]
                 /\ statistics' = recordLoadTime(statistics, elapsed(p))
            [] OTHER ->
                 /\ loc' = [loc EXCEPT ![p].err = "fetch"]
                 /\ pc' = [pc EXCEPT ![p] = "release"]
                 /\ statistics' = statistics
  /\ UNCHANGED <<options, store, cb, call, result, faultsLeft, expired, memVars, entVars, ncalls>>

\* TTCacheService.set, first await: breaker check, provider.set(fullKey, value,
\* cacheTTL); without a stale shadow to write: writes++
SetMain(p) ==
  /\ pc[p] = "set"
  /\ \E ok \in BOOLEAN :
       /\ ok \/ (~cb.open /\ faultsLeft > 0)
       /\ faultsLeft' = IF ok THEN faultsLeft ELSE faultsLeft - 1
       /\ LET ttl == cacheTTL(loc[p].sttl)
              h0 == [hist[p] EXCEPT !.sets = TRUE,
                       !.entryOpen = IF call[p].op = "set" THEN cb.open ELSE @]
          IN  IF cb.open
              THEN /\ store' = store
                   /\ hist' = [hist EXCEPT ![p] = h0]
                   /\ SetDone(p, statistics, cb)
              ELSE IF ~ok
              THEN /\ store' = store
                   /\ hist' = [hist EXCEPT ![p] = [Touch(h0) EXCEPT !.caught = @ + 1]]
                   /\ SetDone(p, [statistics EXCEPT !.errors = @ + 1],
                              handleCircuitBreakerError(cb))
              ELSE /\ store' = ProviderSet(store, getFullKey(loc[p].skey),
                                           loc[p].data, ttl)
                   /\ hist' = [hist EXCEPT ![p] = Touch(h0)]
                   /\ IF options.staleWhileRevalidate /\ ttl # 0
                      THEN /\ pc' = [pc EXCEPT ![p] = "set_stale"]
                           /\ UNCHANGED <<statistics, cb, result>>
                      ELSE SetDone(p, [statistics EXCEPT !.writes = @ + 1], cb)
  /\ UNCHANGED <<options, call, loc, fetchCount, expired, memVars, entVars, ncalls>>

\* second await of set that gives the shadow the ttl of the primary entry
SetStale_SameTTL(p) ==
  /\ pc[p] = "set_stale"
  /\ \E ok \in BOOLEAN :
       /\ MayFail(ok)
       /\ faultsLeft' = IF ok THEN faultsLeft ELSE faultsLeft - 1
       /\ hist' = [hist EXCEPT ![p] =
                      [Touch(@) EXCEPT !.caught = IF ok THEN @ ELSE @ + 1]]
       /\ IF ok
          THEN /\ store' = ProviderSet(store, "stale:" \o getFullKey(loc[p].skey),
                              loc[p].data, cacheTTL(loc[p].sttl))
               /\ SetDone(p, [statistics EXCEPT !.writes = @ + 1], cb)
          ELSE /\ store' = store
               /\ SetDone(p, [statistics EXCEPT !.errors = @ + 1],
                          handleCircuitBreakerError(cb))
  /\ UNCHANGED <<options, call, loc, fetchCount, expired, memVars, entVars, ncalls>>

\* TTCacheService.set, second await: provider.set(`stale:${fullKey}`, value,
\* cacheTTL + (staleTTL || 300)); then writes++
SetStale(p) ==
  /\ pc[p] = "set_stale"
  /\ \E ok \in BOOLEAN :
       /\ MayFail(ok)
       /\ faultsLeft' = IF ok THEN faultsLeft ELSE faultsLeft - 1
       /\ hist' = [hist EXCEPT ![p] =
                      [Touch(@) EXCEPT !.caught = IF ok THEN @ ELSE @ + 1]]
       /\ IF ok
          THEN /\ store' = ProviderSet(store, "stale:" \o getFullKey(loc[p].skey),
                              loc[p].data, cacheTTL(loc[p].sttl) + DefaultStaleTTL)
               /\ SetDone(p, [statistics EXCEPT !.writes = @ + 1], cb)
          ELSE /\ store' = store
               /\ SetDone(p, [statistics EXCEPT !.errors = @ + 1],
                          handleCircuitBreakerError(cb))
  /\ UNCHANGED <<options, call, loc, fetchCount, expired, memVars, entVars, ncalls>>

\* what follows the release: withLock returns fn's result or rethrows fn's error,
\* unless the release itself rejected (thrown from the finally block); a direct
\* release returns the provider's result
Released(p, ok) ==
  CASE call[p].op = "withLock" ->
         /\ UNCHANGED <<statistics, cb>>
         /\ pc' = [pc EXCEPT ![p] = "done"]
         /\ result' = [result EXCEPT ![p] =
                         IF ~ok THEN Err("backend")
                         ELSE IF loc[p].err # "none" THEN Err(loc[p].err)
                         ELSE Val(loc[p].data)]
    [] call[p].op = "release" ->
         /\ UNCHANGED <<statistics, cb>>
         /\ pc' = [pc EXCEPT ![p] = "done"]
         /\ result' = [result EXCEPT ![p] = IF ok THEN Bool(TRUE) ELSE Err("backend")]
    [] OTHER ->
         IF ~ok THEN RtCatch(p, "backend", statistics, cb)
         ELSE IF loc[p].err # "none" THEN RtCatch(p, loc[p].err, statistics, cb)
         ELSE RtReturn(p, loc[p].data, statistics, cb)

\* finally of withLock: await this.release(key), i.e. cacheProvider.delete(lockKey);
\* then fn's result is returned or fn's error rethrown; a rejected delete is
\* thrown from the finally block and replaces either
Release(p) ==
  /\ pc[p] = "release"
  /\ \E ok \in BOOLEAN :
       /\ MayFail(ok)
       /\ faultsLeft' = IF ok THEN faultsLeft ELSE faultsLeft - 1
       \* (observation: whose lock value the delete removed)
       /\ hist' = [q \in Procs |->
                     IF q = p THEN [Touch(hist[p]) EXCEPT !.released = TRUE]
                     ELSE IF /\ ok /\ loc[q].held /\ LockKeyOf(q) = LockKeyOf(p)
                             /\ ProviderGet(store, LockKeyOf(p)) = q
                          THEN [hist[q] EXCEPT !.robbed = TRUE]
                          ELSE hist[q]]
       /\ loc' = [loc EXCEPT ![p].held = FALSE]
       /\ store' = IF ok THEN release(store, LockKeyOf(p), p) ELSE store
       /\ Released(p, ok)
  /\ UNCHANGED <<options, call, fetchCount, expired, memVars, entVars, ncalls>>

\* onLockFailed with staleWhileRevalidate: await this.get(`stale:${key}`)
LfStale(p) ==
  /\ pc[p] = "lf_stale"
  /\ \E ok \in BOOLEAN :
       /\ ok \/ (~cb.open /\ faultsLeft > 0)
       /\ faultsLeft' = IF ok THEN faultsLeft ELSE faultsLeft - 1
       /\ LET g == get("stale:" \o call[p].key, ok)
              \* (observation: the shadow that set keeps for this key, if any,
              \* when the breaker lets get through)
              h0 == [hist[p] EXCEPT !.shadow =
                       IF cb.open THEN Null
                       ELSE ProviderGet(store, "stale:" \o getFullKey(call[p].key))]
          IN  /\ hist' = [hist EXCEPT ![p] = IF g.backend THEN Touch(h0) ELSE h0]
              /\ IF g.v # Null
                 THEN RtReturn(p, g.v, statistics, g.c)
                 ELSE /\ pc' = [pc EXCEPT ![p] = "lf_fetch"]
                      /\ cb' = g.c
                      /\ UNCHANGED <<statistics, result>>
  /\ UNCHANGED <<options, store, call, loc, fetchCount, expired, memVars, entVars, ncalls>>

\* onLockFailed: return await fetchFn()
LfFetch(p) ==
  /\ pc[p] = "lf_fetch"
  /\ \E out \in FetchOutcomes :
       /\ fetchCount' = fetchCount + 1
       /\ hist' = [hist EXCEPT ![p] = FetchHist(@, out)]
       /\ CASE out = "value" -> RtReturn(p, fetchCount + 1, statistics, cb)
            [] out = "null" -> RtReturn(p, Null, statistics, cb)
            [] OTHER -> RtCatch(p, "fetch", statistics, cb)
  /\ UNCHANGED <<options, store, call, loc, faultsLeft, expired, memVars, entVars, ncalls>>

\* no stampede protection: const data = await fetchFn(); if (data) await this.set(...)
RtFetch(p) ==
  /\ pc[p] = "rt_fetch"
  /\ \E out \in FetchOutcomes :
       /\ fetchCount' = fetchCount + 1
       /\ hist' = [hist EXCEPT ![p] = FetchHist(@, out)]
       /\ CASE out = "value" ->
                 /\ loc' = [loc EXCEPT ![p].data = fetchCount + 1, ![p].cont = "rt",
                                       ![p].skey = call[p].key,
                                       ![p].sttl = cacheTTL(call[p].ttl)]
                 /\ pc' = [pc EXCEPT ![p] = "set"]
                 /\ UNCHANGED <<statistics, cb, result>>
            [] out = "null" ->
                 /\ loc' = loc
                 /\ RtReturn(p, Null, recordLoadTime(statistics, elapsed(p)), cb)
            [] OTHER ->
                 /\ loc' = loc
                 /\ RtCatch(p, "fetch", statistics, cb)
  /\ UNCHANGED <<options, store, call, faultsLeft, expired, memVars, entVars, ncalls>>

\* catch block with the breaker open: return await fetchFn()
CatchFetch(p) ==
  /\ pc[p] = "catch_fetch"
  /\ \E out \in FetchOutcomes :
       /\ fetchCount' = fetchCount + 1
       /\ hist' = [hist EXCEPT ![p] = FetchHist(@, out)]
       /\ pc' = [pc EXCEPT ![p] = "done"]
       /\ result' = [result EXCEPT ![p] =
                       CASE out = "value" -> Val(fetchCount + 1)
                         [] out = "null" -> Val(Null)
                         [] OTHER -> Err("fetch")]
  /\ UNCHANGED <<options, store, statistics, cb, call, loc, faultsLeft, expired, memVars, entVars, ncalls>>

(* ------------------------------ writeThrough ---------------------------- *)
\* ttl of @CacheableEntity when the decorator is given none
EntityTTL == 3600

\* glob match of the patterns the engine builds (a prefix followed by one '*'):
\* patternToRegex gives ^prefix.*$
MatchesPattern(k, pat) ==
  LET n == Len(pat) - 1
  IN  Len(k) >= n /\ SubSeq(k, 1, n) = SubSeq(pat, 1, n)

\* CacheManagerAdapter.deletePattern: the listed keys are deleted
ProviderDeletePattern(s, pat) ==
  [x \in {k \in DOMAIN s : ~MatchesPattern(k, pat)} |-> s[x]]
PatternCount(s, pat) == Cardinality({k \in DOMAIN s : MatchesPattern(k, pat)})

\* a catch block of writeThrough that swallows the error and returns the entity
WtCatch_Swallow(p, e) ==
  /\ statistics' = [statistics EXCEPT !.errors = @ + 1]
  /\ cb' = handleCircuitBreakerError(cb)
  /\ pc' = [pc EXCEPT ![p] = "done"]
  /\ result' = [result EXCEPT ![p] = Val(call[p].value)]

\* the catch block of writeThrough: errors++, handleCircuitBreakerError, rethrow
WtCatch(p, e) ==
  /\ statistics' = [statistics EXCEPT !.errors = @ + 1]
  /\ cb' = handleCircuitBreakerError(cb)
  /\ pc' = [pc EXCEPT ![p] = "done"]
  /\ result' = [result EXCEPT ![p] = Err(e)]

\* const saved = await repository.save(entity); if cacheable: forEntity, then
\* await this.set(cacheKey, saved, ttl || cacheOptions?.ttl || defaultTTL)
WtPersist(p) ==
  /\ pc[p] = "wt_persist"
  /\ \E ok \in BOOLEAN :
       LET e == call[p].entity
       IN  IF ~ok
           THEN /\ hist' = [hist EXCEPT ![p].persisted = "failed"]
                /\ loc' = loc
                /\ WtCatch(p, "persist")
           ELSE /\ hist' = [hist EXCEPT ![p].persisted = "ok"]
                /\ IF ~e.cacheable
                   THEN /\ loc' = loc
                        /\ pc' = [pc EXCEPT ![p] = "done"]
                        /\ result' = [result EXCEPT ![p] = Val(call[p].value)]
                        /\ statistics' = recordWriteTime(statistics, elapsed(p))
                        /\ cb' = cb
                   ELSE IF forEntity(e) = ""
                   THEN /\ loc' = loc
                        /\ WtCatch(p, "keygen")
                   ELSE /\ loc' = [loc EXCEPT ![p].data = call[p].value,
                                     ![p].cont = "wt", ![p].skey = forEntity(e),
                                     ![p].sttl = IF call[p].ttl # 0 THEN call[p].ttl
                                                 ELSE EntityTTL]
                        /\ pc' = [pc EXCEPT ![p] = "set"]
                        /\ UNCHANGED <<statistics, cb, result>>
  /\ UNCHANGED <<options, store, call, fetchCount, faultsLeft, expired, memVars, entVars, ncalls>>

\* what CacheManagerAdapter.deletePattern may do: delete the listed keys; list no
\* key because store.keys() failed (keys() swallows that and returns []); reject
\* because a del of Promise.all rejected
DelPatternOutcomes == {"ok", "listfail", "delfail"}

\* CacheManagerAdapter.deletePattern(pat) on store s: [s: the store afterwards,
\* n: the number returned, rejected: whether the promise rejected]; F: the listed
\* keys whose del rejected
deletePattern(s, pat, out, F) ==
  CASE out = "listfail" -> [s |-> s, n |-> 0, rejected |-> FALSE]
    [] out = "delfail" ->
         [s |-> [x \in DOMAIN s \ ({k \in DOMAIN s : MatchesPattern(k, pat)} \ F)
                   |-> s[x]],
          n |-> 0, rejected |-> TRUE]
    [] OTHER -> [s |-> ProviderDeletePattern(s, pat), n |-> PatternCount(s, pat),
                 rejected |-> FALSE]

\* the outcomes deletePattern can have on store s (a rejection needs a listed key)
DelPatternInputs(s, pat) ==
  {io \in [out : DelPatternOutcomes,
           F : SUBSET {k \in DOMAIN s : MatchesPattern(k, pat)}] :
     /\ io.out = "delfail" <=> io.F # {}
     /\ io.out = "ok" \/ faultsLeft > 0}

\* the pattern argument of the running invalidation: invalidatePattern(pattern),
\* invalidateEntity(entityName), invalidateRelations(saved) of writeThrough
InvPat(p) ==
  CASE call[p].op = "invalidatePattern" -> call[p].key
    [] call[p].op = "invalidateEntity" -> pattern(call[p].key)
    [] OTHER -> pattern("E")

\* return n from invalidatePattern; writeThrough then returns the saved entity
InvReturn(p, n, s) ==
  /\ statistics' = IF call[p].op = "writeThrough"
                   THEN recordWriteTime(s, elapsed(p)) ELSE s
  /\ pc' = [pc EXCEPT ![p] = "done"]
  /\ result' = [result EXCEPT ![p] =
                  IF call[p].op = "writeThrough" THEN Val(call[p].value) ELSE Num(n)]

\* the catch block of invalidatePattern that also counts the keys as deleted
InvCatch_CountDeletes(s) == [s EXCEPT !.errors = @ + 1, !.deletes = @ + 1]

\* the catch block of invalidatePattern: errors++ (return 0)
InvCatch(s) == [s EXCEPT !.errors = @ + 1]

\* invalidatePattern, first await: count = await provider.deletePattern(fullPattern);
\* without staleWhileRevalidate: deletes += count, return count
InvPattern(p) ==
  /\ pc[p] = "inv"
  /\ \E io \in DelPatternInputs(store, getFullKey(InvPat(p))) :
       LET d == deletePattern(store, getFullKey(InvPat(p)), io.out, io.F)
       IN  /\ faultsLeft' = IF io.out = "ok" THEN faultsLeft ELSE faultsLeft - 1
           /\ store' = d.s
           /\ IF d.rejected
              THEN /\ hist' = [hist EXCEPT ![p] = [Touch(@) EXCEPT !.caught = @ + 1]]
                   /\ loc' = loc
                   /\ InvReturn(p, 0, InvCatch(statistics))
              ELSE /\ hist' = [hist EXCEPT ![p] = Touch(@)]
                   /\ loc' = [loc EXCEPT ![p].i = d.n]
                   /\ IF options.staleWhileRevalidate
                      THEN /\ pc' = [pc EXCEPT ![p] = "inv_stale"]
                           /\ UNCHANGED <<statistics, result>>
                      ELSE InvReturn(p, d.n, [statistics EXCEPT !.deletes = @ + d.n])
  /\ UNCHANGED <<options, cb, call, fetchCount, expired, memVars, entVars, ncalls>>

\* invalidatePattern with staleWhileRevalidate, second await:
\* provider.deletePattern(`stale:${fullPattern}`); then deletes += count, return count
InvPatternStale(p) ==
  /\ pc[p] = "inv_stale"
  /\ \E io \in DelPatternInputs(store, "stale:" \o getFullKey(InvPat(p))) :
       LET d == deletePattern(store, "stale:" \o getFullKey(InvPat(p)), io.out, io.F)
       IN  /\ faultsLeft' = IF io.out = "ok" THEN faultsLeft ELSE faultsLeft - 1
           /\ store' = d.s
           /\ IF d.rejected
              THEN /\ hist' = [hist EXCEPT ![p] = [Touch(@) EXCEPT !.caught = @ + 1]]
                   /\ InvReturn(p, 0, InvCatch(statistics))
              ELSE /\ hist' = [hist EXCEPT ![p] = Touch(@)]
                   /\ InvReturn(p, loc[p].i,
                                [statistics EXCEPT !.deletes = @ + loc[p].i])
  /\ UNCHANGED <<options, cb, call, loc, fetchCount, expired, memVars, entVars, ncalls>>

(* ------------------------- direct engine calls -------------------------- *)
\* TTCacheService.get called by the application
GetOp(p) ==
  /\ pc[p] = "get"
  /\ \E ok \in BOOLEAN :
       /\ ok \/ (~cb.open /\ faultsLeft > 0)
       /\ faultsLeft' = IF ok THEN faultsLeft ELSE faultsLeft - 1
       /\ LET g == get(call[p].key, ok)
              h0 == [hist[p] EXCEPT !.entryOpen = cb.open,
                                    !.caught = IF g.backend /\ ~ok THEN @ + 1 ELSE @]
          IN  /\ cb' = g.c
              /\ hist' = [hist EXCEPT ![p] = IF g.backend THEN Touch(h0) ELSE h0]
              /\ result' = [result EXCEPT ![p] = Val(g.v)]
              /\ pc' = [pc EXCEPT ![p] = "done"]
  /\ UNCHANGED <<options, store, statistics, call, loc, fetchCount, expired, memVars, entVars, ncalls>>

\* value the application stores with a direct set
SetValues == {100}

\* entity state persisted by writeThrough (the saved entity)
SavedValues == {200}

\* what a caller's entry into the engine leaves alone
StartFrame(p) ==
  /\ ncalls < MaxCalls
  /\ ncalls' = ncalls + 1
  /\ UNCHANGED <<options, store, statistics, cb, result, hist, fetchCount, faultsLeft,
                 expired, memVars, entVars>>

\* a caller calls readThrough(k, fetchFn, ttl) for a key k of K
StartReadThroughOf(p, K) ==
  /\ pc[p] = "idle"
  /\ \E k \in K, t \in TTLs :
       call' = [call EXCEPT ![p] = [NoCall EXCEPT !.op = "readThrough",
                                      !.key = k, !.ttl = t, !.startTime = now]]
  /\ pc' = [pc EXCEPT ![p] = "rt_get"]
  /\ loc' = loc
  /\ StartFrame(p)

\* a caller calls readThrough(k, fetchFn, ttl)
StartReadThrough(p) == StartReadThroughOf(p, Keys)

\* a caller calls writeThrough(entity, repository, ttl)
StartWriteThrough(p) ==
  /\ pc[p] = "idle"
  /\ \E e \in Entities, t \in TTLs, v \in SavedValues :
       call' = [call EXCEPT ![p] = [NoCall EXCEPT !.op = "writeThrough",
                                      !.entity = e, !.ttl = t, !.value = v,
                                      !.startTime = now]]
  /\ pc' = [pc EXCEPT ![p] = "wt_persist"]
  /\ loc' = loc
  /\ StartFrame(p)

\* a caller calls get(k)
StartGet(p) ==
  /\ pc[p] = "idle"
  /\ \E k \in Keys :
       call' = [call EXCEPT ![p] = [NoCall EXCEPT !.op = "get", !.key = k]]
  /\ pc' = [pc EXCEPT ![p] = "get"]
  /\ loc' = loc
  /\ StartFrame(p)

\* a caller calls set(k, v, ttl) with a value v of V
StartSetOf(p, V) ==
  /\ pc[p] = "idle"
  /\ \E k \in Keys, v \in V, t \in TTLs :
       /\ call' = [call EXCEPT ![p] = [NoCall EXCEPT !.op = "set", !.key = k,
                                         !.ttl = t, !.value = v]]
       /\ loc' = [loc EXCEPT ![p].data = v, ![p].cont = "op", ![p].skey = k,
                             ![p].sttl = t]
  /\ pc' = [pc EXCEPT ![p] = "set"]
  /\ StartFrame(p)

\* a caller calls set(k, v, ttl)
StartSet(p) == StartSetOf(p, SetValues)

(* ---------------------------- timers, time ------------------------------ *)
\* the setTimeout of openCircuitBreaker fires after resetTimeout
CbTimerFire ==
  /\ cb.timer
  /\ cb' = closeCircuitBreaker(cb)
  /\ UNCHANGED <<options, store, statistics, pc, call, loc, result, hist,
                 fetchCount, faultsLeft, expired, memVars, entVars, ncalls>>

\* an entry stored with a ttl reaches its expiry instant: the backend drops it
Expire(k) ==
  /\ k \in DOMAIN store
  /\ store[k].ttl # 0
  /\ k \in expired \/ Cardinality(expired) < MaxExpiries
  /\ store' = ProviderDelete(store, k)
  /\ expired' = expired \cup {k}
  /\ UNCHANGED <<memVars, entVars>>
  /\ UNCHANGED <<options, statistics, cb, pc, call, loc, result, hist,
                 fetchCount, faultsLeft, ncalls>>

\* the application takes the outcome of a finished call and is free to call again
Again(p) ==
  /\ pc[p] = "done"
  /\ ncalls < MaxCalls
  /\ pc' = [pc EXCEPT ![p] = "idle"]
  /\ call' = [call EXCEPT ![p] = NoCall]
  /\ loc' = [loc EXCEPT ![p] = NoLoc]
  /\ result' = [result EXCEPT ![p] = NoResult]
  /\ hist' = [hist EXCEPT ![p] = NoHist]
  /\ UNCHANGED <<options, store, statistics, cb, fetchCount, faultsLeft, expired, memVars, entVars,
                 ncalls>>

(* --------------------------- specifications ----------------------------- *)
\* the steps of a readThrough call
ReadThroughStep(p) ==
  \/ RtGet(p) \/ AcqExists(p) \/ AcqSet(p) \/ LkGet(p) \/ LkFetch(p)
  \/ SetMain(p) \/ SetStale(p) \/ Release(p) \/ LfStale(p) \/ LfFetch(p)
  \/ RtFetch(p) \/ CatchFetch(p)

\* the steps of a writeThrough call
WriteThroughStep(p) ==
  \/ WtPersist(p) \/ SetMain(p) \/ SetStale(p) \/ InvPattern(p) \/ InvPatternStale(p)

\* concurrent readThrough calls
InitRT == Init /\ ~options.invalidateRelations
NextRT ==
  \/ \E p \in Procs : StartReadThrough(p) \/ ReadThroughStep(p)
  \/ CbTimerFire
SpecRT == InitRT /\ [][NextRT]_vars

\* concurrent writeThrough calls (entities that are not cacheable are all alike:
\* one of them is passed; one caller passes a ttl or omits it, the others omit it)
InitWT == Init /\ ~options.stampedeProtection
NextWT ==
  \/ \E p \in Procs :
       \/ /\ StartWriteThrough(p)
          /\ call'[p].entity.cacheable \/ call'[p].entity.id = 0
          /\ call'[p].ttl = 0 \/ p = 1
       \/ WriteThroughStep(p)
  \/ CbTimerFire
SpecWT == InitWT /\ [][NextWT]_vars

\* readThrough calls made one after the other (each awaited before the next),
\* against a backend that rejects no call
InitSeq == Constructed /\ ~options.invalidateRelations /\ faultsLeft = 0
Quiet == \A q \in Procs : pc[q] \in {"idle", "done"}
\* (the lock is free whenever a call starts: onLockFailed has no step here)
NextSeq ==
  \/ \E p \in Procs :
        \/ Quiet /\ StartReadThrough(p)
        \/ RtGet(p) \/ AcqExists(p) \/ AcqSet(p) \/ LkGet(p) \/ LkFetch(p)
        \/ SetMain(p) \/ SetStale(p) \/ Release(p) \/ RtFetch(p) \/ CatchFetch(p)
  \/ CbTimerFire
  \/ \E k \in DOMAIN store : Expire(k)
SpecSeq == InitSeq /\ [][NextSeq]_vars

\* direct get/set calls against an engine with the circuit breaker enabled
InitCB ==
  /\ Init
  /\ options.circuitBreaker
  /\ ~options.stampedeProtection /\ ~options.invalidateRelations
  /\ options.keyPrefix = ""
NextCB ==
  \/ \E p \in Procs : StartGet(p) \/ StartSet(p) \/ GetOp(p) \/ SetMain(p)
                      \/ SetStale(p) \/ Again(p)
  \/ CbTimerFire
SpecCB == InitCB /\ [][NextCB]_vars

\* the event loop runs a pending timer: the reset timer of the breaker fires
FairSpecCB == SpecCB /\ WF_vars(CbTimerFire)

(* ------------------------------- claims --------------------------------- *)
Done(p, op) == pc[p] = "done" /\ call[p].op = op

\* C1: with stampede protection, no lock timeout and no failure, concurrent
\* readThrough calls on an absent key invoke fetchFn exactly once in total and
\* all callers return the value of that one fetch.
C1_SingleFetch ==
  ( /\ options.stampedeProtection
    /\ faultsLeft = MaxFaults
    /\ \A p \in Procs : /\ Done(p, "readThrough")
                        /\ ~hist[p].lockFailed /\ ~hist[p].fetchFailed
                        /\ result[p].kind = "value" /\ result[p].v # Null )
  => /\ fetchCount = 1
     /\ \A p, q \in Procs : result[p] = result[q]

\* C2: at most one caller at a time is between a successful acquire and its release
\* of the same lock key (no lock expires in SpecRT).
C2_MutualExclusion ==
  \A p, q \in Procs :
    (p # q /\ call[p].key = call[q].key) => ~(loc[p].held /\ loc[q].held)

\* C5: a readThrough call that finds the breaker open performs no backend operation
\* while the breaker is open, whatever stampedeProtection is.
C5_OpenNoBackend ==
  \A p \in Procs :
    (call[p].op = "readThrough" /\ hist[p].entryOpen) => ~hist[p].openOps

\* C7: once persist has succeeded, writeThrough returns the saved entity and never
\* fails, whatever goes wrong in the caching step.
C7_NeverFailsAfterPersist ==
  \A p \in Procs :
    (Done(p, "writeThrough") /\ hist[p].persisted = "ok")
      => result[p] = Val(call[p].value)

\* C8: a failure of the fetch callback is never swallowed: the readThrough call
\* fails with that error and returns no value.
C8_FetchErrorPropagates ==
  \A p \in Procs :
    (Done(p, "readThrough") /\ hist[p].fetchFailed) => result[p] = Err("fetch")

\* C9: a backend failure at any step of readThrough never makes the call fail when
\* the fetch callback succeeds.
C9_BackendFailureTolerated ==
  \A p \in Procs :
    (Done(p, "readThrough") /\ ~hist[p].fetchFailed) => result[p].kind = "value"

\* C3: once Threshold errors are recorded the breaker is open (and stays open exactly
\* while its reset timer is pending); a get that finds it open returns null and a set
\* that finds it open does nothing, neither calling the backend.
C3_OpenShortCircuits ==
  /\ cb.errors >= Threshold => cb.open
  /\ cb.open <=> cb.timer
  /\ \A p \in Procs :
       (Done(p, "get") /\ hist[p].entryOpen)
         => (result[p] = Val(Null) /\ ~hist[p].touched)
  /\ \A p \in Procs :
       (call[p].op = "set" /\ hist[p].sets /\ hist[p].entryOpen)
         => (pc[p] = "done" /\ ~hist[p].touched /\ result[p] = Val(Null))

\* C3 witness: a get and a set have both found the breaker open
C3_Witness ==
  /\ cb.errors >= Threshold
  /\ \E p, q \in Procs :
       /\ Done(p, "get") /\ hist[p].entryOpen
       /\ Done(q, "set") /\ hist[q].entryOpen

\* C4: an open breaker eventually closes with the error count at zero; it closes
\* in a step that runs no engine call (the timer alone, no trial request); a get
\* that finds the breaker closed calls the backend.
C4_BreakerCloses ==
  /\ cb.open ~> (~cb.open /\ cb.errors = 0)
  /\ [][(cb.open /\ ~cb'.open)
          => (cb'.errors = 0 /\ pc' = pc /\ store' = store /\ hist' = hist)]_vars
  /\ [](\A p \in Procs :
          (Done(p, "get") /\ ~hist[p].entryOpen) => hist[p].touched)

\* C4 witness: the breaker is closed again with no error counted, after a call found
\* it open, and a later get has gone to the backend
C4_Witness ==
  /\ ~cb.open /\ cb.errors = 0
  /\ \E p, q \in Procs :
       /\ pc[p] = "done" /\ hist[p].entryOpen
       /\ Done(q, "get") /\ ~hist[q].entryOpen /\ hist[q].touched

\* C6: writeThrough attempts no cache operation before persist has succeeded; when
\* persist fails, set is never called, the backend is not touched and the caller
\* gets the persist error.
C6_PersistFirst ==
  \A p \in Procs :
    call[p].op = "writeThrough" =>
      /\ hist[p].persisted = "no" => (~hist[p].sets /\ ~hist[p].touched)
      /\ hist[p].persisted = "failed"
           => /\ ~hist[p].sets /\ ~hist[p].touched
              /\ pc[p] = "done" /\ result[p] = Err("persist")

\* C6 witness: a writeThrough whose persist failed has returned
C6_Witness ==
  \E p \in Procs : Done(p, "writeThrough") /\ hist[p].persisted = "failed"

\* C10: sequential readThrough calls with a healthy backend and no expiry: a call on
\* an absent key fetches once, stores a non-null result under the key with the given
\* ttl (the default ttl when none is given) and counts one miss and no hit; every
\* later call returns the stored value without fetching and counts one hit.
C10_MissThenHit ==
  ( /\ expired = {}
    /\ \A p \in Procs : ~hist[p].fetchFailed )
  => LET doneRT == {p \in Procs : Done(p, "readThrough")}
         missed == {p \in doneRT : hist[p].miss = 1}
         hitters == {p \in doneRT : hist[p].hit = 1}
     IN  /\ \A p \in doneRT : hist[p].hit + hist[p].miss = 1
         /\ \A p \in missed :
              /\ hist[p].fetches = 1
              /\ result[p].kind = "value"
              /\ result[p].v # Null =>
                   /\ getFullKey(call[p].key) \in DOMAIN store
                   /\ store[getFullKey(call[p].key)] =
                        [v |-> result[p].v,
                         ttl |-> IF call[p].ttl # 0 THEN call[p].ttl ELSE DefaultTTL]
         /\ \A p \in hitters :
              /\ hist[p].fetches = 0
              /\ getFullKey(call[p].key) \in DOMAIN store
              /\ result[p] = Val(store[getFullKey(call[p].key)].v)
         /\ Cardinality({p \in missed : result[p].v # Null}) <= 1
         /\ (\A p \in Procs : pc[p] \in {"idle", "done"}) =>
              /\ statistics.hits = Cardinality(hitters)
              /\ statistics.misses = Cardinality(missed)

\* C10 witness: a first call missed, fetched and stored with ttl 60; a second call
\* returned that value from the cache without fetching
C10_Witness ==
  /\ expired = {}
  /\ \E p, q \in Procs :
       /\ Done(p, "readThrough") /\ hist[p].miss = 1 /\ hist[p].fetches = 1
       /\ call[p].ttl = 60 /\ result[p].v # Null
       /\ Done(q, "readThrough") /\ hist[q].hit = 1 /\ hist[q].fetches = 0
       /\ result[q] = result[p]
       /\ statistics.hits = 1 /\ statistics.misses = 1 /\ fetchCount = 1

\* every engine operation of the model together
Next ==
  \/ \E p \in Procs : StartReadThrough(p) \/ StartWriteThrough(p) \/ StartGet(p)
                      \/ StartSet(p) \/ ReadThroughStep(p) \/ WriteThroughStep(p)
                      \/ GetOp(p) \/ Again(p)
  \/ CbTimerFire
  \/ \E k \in DOMAIN store : Expire(k)
Spec == Init /\ [][Next]_vars

(* ------------------- settled with the statistics in view ---------------- *)
\* readThrough calls made one after the other, each caller free to call again
InitStat == InitSeq
NextStat ==
  \/ \E p \in Procs :
        \/ Quiet /\ StartReadThrough(p)
        \/ RtGet(p) \/ AcqExists(p) \/ AcqSet(p) \/ LkGet(p) \/ LkFetch(p)
        \/ SetMain(p) \/ SetStale(p) \/ Release(p) \/ RtFetch(p) \/ CatchFetch(p)
        \/ Again(p)
  \/ CbTimerFire
  \/ \E k \in DOMAIN store : Expire(k)
SpecStat == InitStat /\ [][NextStat]_vars

\* C11: whenever no readThrough call is in progress and a hit or a miss has been
\* recorded, statistics.hitRate equals hits / (hits + misses).
C11_HitRateCurrent ==
  (Quiet /\ statistics.hits + statistics.misses > 0)
    => statistics.hitRate.num * (statistics.hits + statistics.misses)
         = statistics.hits * statistics.hitRate.den

(* ---------------------- stale shadows under contention ------------------ *)
\* concurrent readThrough calls with stampedeProtection and staleWhileRevalidate,
\* against a backend that rejects no call; entries expire
InitStale ==
  /\ Constructed
  /\ options.stampedeProtection /\ options.staleWhileRevalidate
  /\ ~options.invalidateRelations
  /\ faultsLeft = 0
NextStale ==
  \/ \E p \in Procs :
        \/ StartReadThrough(p)
        \/ RtGet(p) \/ AcqExists(p) \/ AcqSet(p) \/ LkGet(p) \/ LkFetch(p)
        \/ SetMain(p) \/ SetStale(p) \/ Release(p) \/ LfStale(p) \/ LfFetch(p)
        \/ CatchFetch(p)
  \/ CbTimerFire
  \/ \E k \in DOMAIN store : Expire(k)
SpecStale == InitStale /\ [][NextStale]_vars

\* C12: a readThrough call whose lock acquisition failed while the stale shadow
\* written by set for its key was present (and the breaker closed) returns the
\* shadow's value and does not call fetchFn, with or without a keyPrefix.
C12_ShadowServed ==
  \A p \in Procs :
    ( /\ call[p].op = "readThrough" /\ hist[p].lockFailed
      /\ pc[p] \in {"lf_fetch", "catch_fetch", "done"}
      /\ hist[p].shadow # Null )
    => /\ pc[p] = "done"
       /\ result[p] = Val(hist[p].shadow)
       /\ hist[p].fetches = 0

(* ------------------ delete, invalidation and warm-up calls -------------- *)
\* glob patterns and entity names the application invalidates
Patterns == {"k*", "E:id:*"}
EntityNames == {"E"}

\* the entity lists handed to warmCache
WarmLists ==
  {<<a>> : a \in Entities}
    \cup {es \in {<<a, b>> : a \in Entities, b \in Entities} : es[1] # es[2]}

\* TTCacheService.delete, first await: provider.delete(fullKey); without
\* staleWhileRevalidate: deletes++, return the provider's result (true); a rejection
\* is caught: errors++, return false
DelMain(p) ==
  /\ pc[p] = "del"
  /\ \E ok \in BOOLEAN :
       /\ MayFail(ok)
       /\ faultsLeft' = IF ok THEN faultsLeft ELSE faultsLeft - 1
       /\ IF ~ok
          THEN /\ store' = store
               /\ hist' = [hist EXCEPT ![p] = [Touch(@) EXCEPT !.caught = @ + 1]]
               /\ statistics' = [statistics EXCEPT !.errors = @ + 1]
               /\ pc' = [pc EXCEPT ![p] = "done"]
               /\ result' = [result EXCEPT ![p] = Bool(FALSE)]
          ELSE /\ store' = ProviderDelete(store, getFullKey(call[p].key))
               /\ hist' = [hist EXCEPT ![p] = Touch(@)]
               /\ IF options.staleWhileRevalidate
                  THEN /\ pc' = [pc EXCEPT ![p] = "del_stale"]
                       /\ UNCHANGED <<statistics, result>>
                  ELSE /\ statistics' = [statistics EXCEPT !.deletes = @ + 1]
                       /\ pc' = [pc EXCEPT ![p] = "done"]
                       /\ result' = [result EXCEPT ![p] = Bool(TRUE)]
  /\ UNCHANGED <<options, cb, call, loc, fetchCount, expired, memVars, entVars, ncalls>>

\* TTCacheService.delete, second await: provider.delete(`stale:${fullKey}`)
DelStale(p) ==
  /\ pc[p] = "del_stale"
  /\ \E ok \in BOOLEAN :
       /\ MayFail(ok)
       /\ faultsLeft' = IF ok THEN faultsLeft ELSE faultsLeft - 1
       /\ pc' = [pc EXCEPT ![p] = "done"]
       /\ IF ~ok
          THEN /\ store' = store
               /\ hist' = [hist EXCEPT ![p] = [Touch(@) EXCEPT !.caught = @ + 1]]
               /\ statistics' = [statistics EXCEPT !.errors = @ + 1]
               /\ result' = [result EXCEPT ![p] = Bool(FALSE)]
          ELSE /\ store' = ProviderDelete(store, "stale:" \o getFullKey(call[p].key))
               /\ hist' = [hist EXCEPT ![p] = Touch(@)]
               /\ statistics' = [statistics EXCEPT !.deletes = @ + 1]
               /\ result' = [result EXCEPT ![p] = Bool(TRUE)]
  /\ UNCHANGED <<options, cb, call, loc, fetchCount, expired, memVars, entVars, ncalls>>

\* warmCache without the isCacheable filter
warmCache_NoFilter(p) ==
  /\ pc[p] = "warm"
  /\ LET es == call[p].entities
         items == DOMAIN es
         ttl == IF call[p].ttl # 0 THEN call[p].ttl ELSE EntityTTL
     IN  IF \E i \in items : forEntity(es[i]) = ""
         THEN /\ result' = [result EXCEPT ![p] = Err("keygen")]
              /\ UNCHANGED <<store, statistics, hist, faultsLeft>>
         ELSE IF items = {}
         THEN /\ result' = [result EXCEPT ![p] = Val(Null)]
              /\ UNCHANGED <<store, statistics, hist, faultsLeft>>
         ELSE \E R \in SUBSET items :
                LET written == {getFullKey(forEntity(es[i])) : i \in items \ R}
                IN  /\ Cardinality(R) <= faultsLeft
                    /\ faultsLeft' = faultsLeft - Cardinality(R)
                    /\ store' = [x \in DOMAIN store \cup written |->
                                   IF x \in written
                                   THEN [v |-> call[p].value, ttl |-> ttl]
                                   ELSE store[x]]
                    /\ hist' = [hist EXCEPT ![p] = [Touch(@) EXCEPT !.wrote = written]]
                    /\ IF R = {}
                       THEN /\ statistics' = [statistics EXCEPT !.writes =
                                                @ + Cardinality(items)]
                            /\ result' = [result EXCEPT ![p] = Val(Null)]
                       ELSE /\ statistics' = statistics
                            /\ result' = [result EXCEPT ![p] = Err("backend")]
  /\ pc' = [pc EXCEPT ![p] = "done"]
  /\ UNCHANGED <<options, cb, call, loc, fetchCount, expired, memVars, entVars, ncalls>>

\* TTCacheService.warmCache: items = entities.filter(isCacheable).map(forEntity ...)
\* (an entity that cannot be keyed throws out of the map); then
\* await provider.mset(items), which is Promise.all over provider.set, and
\* writes += items.length.  R: the items whose set rejects
warmCache(p) ==
  /\ pc[p] = "warm"
  /\ LET es == call[p].entities
         items == {i \in DOMAIN es : es[i].cacheable}
         ttl == IF call[p].ttl # 0 THEN call[p].ttl ELSE EntityTTL
     IN  IF \E i \in items : forEntity(es[i]) = ""
         THEN /\ result' = [result EXCEPT ![p] = Err("keygen")]
              /\ UNCHANGED <<store, statistics, hist, faultsLeft>>
         ELSE IF items = {}
         THEN /\ result' = [result EXCEPT ![p] = Val(Null)]
              /\ UNCHANGED <<store, statistics, hist, faultsLeft>>
         ELSE \E R \in SUBSET items :
                LET written == {getFullKey(forEntity(es[i])) : i \in items \ R}
                IN  /\ Cardinality(R) <= faultsLeft
                    /\ faultsLeft' = faultsLeft - Cardinality(R)
                    /\ store' = [x \in DOMAIN store \cup written |->
                                   IF x \in written
                                   THEN [v |-> call[p].value, ttl |-> ttl]
                                   ELSE store[x]]
                    /\ hist' = [hist EXCEPT ![p] = [Touch(@) EXCEPT !.wrote = written]]
                    /\ IF R = {}
                       THEN /\ statistics' = [statistics EXCEPT !.writes =
                                                @ + Cardinality(items)]
                            /\ result' = [result EXCEPT ![p] = Val(Null)]
                       ELSE /\ statistics' = statistics
                            /\ result' = [result EXCEPT ![p] = Err("backend")]
  /\ pc' = [pc EXCEPT ![p] = "done"]
  /\ UNCHANGED <<options, cb, call, loc, fetchCount, expired, memVars, entVars, ncalls>>

\* a caller calls delete(k) with a key k of K
StartDeleteOf(p, K) ==
  /\ pc[p] = "idle"
  /\ \E k \in K :
       call' = [call EXCEPT ![p] = [NoCall EXCEPT !.op = "delete", !.key = k]]
  /\ pc' = [pc EXCEPT ![p] = "del"]
  /\ loc' = loc
  /\ StartFrame(p)

\* a caller calls delete(k)
StartDelete(p) == StartDeleteOf(p, Keys)

\* a caller calls invalidatePattern(pattern) with a pattern of P
StartInvalidatePatternOf(p, P) ==
  /\ pc[p] = "idle"
  /\ \E pat \in P :
       call' = [call EXCEPT ![p] = [NoCall EXCEPT !.op = "invalidatePattern",
                                      !.key = pat]]
  /\ pc' = [pc EXCEPT ![p] = "inv"]
  /\ loc' = loc
  /\ StartFrame(p)

\* a caller calls invalidatePattern(pattern)
StartInvalidatePattern(p) == StartInvalidatePatternOf(p, Patterns)

\* a caller calls invalidateEntity(entityName)
StartInvalidateEntity(p) ==
  /\ pc[p] = "idle"
  /\ \E n \in EntityNames :
       call' = [call EXCEPT ![p] = [NoCall EXCEPT !.op = "invalidateEntity",
                                      !.key = n]]
  /\ pc' = [pc EXCEPT ![p] = "inv"]
  /\ loc' = loc
  /\ StartFrame(p)

\* a caller calls warmCache(entities, ttl)
StartWarmCache(p) ==
  /\ pc[p] = "idle"
  /\ \E es \in WarmLists, t \in TTLs, v \in SavedValues :
       call' = [call EXCEPT ![p] = [NoCall EXCEPT !.op = "warmCache",
                                      !.entities = es, !.ttl = t, !.value = v]]
  /\ pc' = [pc EXCEPT ![p] = "warm"]
  /\ loc' = loc
  /\ StartFrame(p)

\* invalidation calls concurrent with each other and with a writeThrough call (a
\* writeThrough starts when no other call is in progress)
InitInv == InitWT /\ ~options.circuitBreaker
NextInv ==
  \E p \in Procs :
    \/ /\ Quiet /\ StartWriteThrough(p)
       /\ call'[p].entity.cacheable \/ call'[p].entity.id = 0
       /\ call'[p].ttl = 0
    \/ StartInvalidatePattern(p)
    \/ StartInvalidateEntity(p) \/ WriteThroughStep(p)
SpecInv == InitInv /\ [][NextInv]_vars

\* the get, set, delete and invalidatePattern calls of the application, concurrent
\* and repeated
InitOps == Init /\ ~options.stampedeProtection /\ ~options.invalidateRelations
NextOps ==
  \/ \E p \in Procs :
        \/ StartGet(p) \/ StartSet(p) \/ StartDelete(p) \/ StartInvalidatePattern(p)
        \/ GetOp(p) \/ SetMain(p) \/ SetStale(p) \/ DelMain(p) \/ DelStale(p)
        \/ InvPattern(p) \/ InvPatternStale(p)
        \/ Again(p)
  \/ CbTimerFire
SpecOps == InitOps /\ [][NextOps]_vars

\* warmCache calls next to reads, concurrent
InitWarm == InitOps
NextWarm ==
  \/ \E p \in Procs : StartWarmCache(p) \/ warmCache(p) \/ StartGet(p) \/ GetOp(p)
  \/ CbTimerFire
SpecWarm == InitWarm /\ [][NextWarm]_vars

InvOps == {"invalidatePattern", "invalidateEntity"}

\* C13: invalidatePattern and invalidateEntity never raise; the step in which the
\* backend's rejection reaches them ends the call with 0 (inside writeThrough: with
\* the saved entity), adds one to statistics.errors and leaves statistics.deletes
\* as it was.
C13_InvalidationSwallows ==
  /\ [](\A p \in Procs :
          call[p].op \in InvOps =>
            /\ result[p].kind # "error"
            /\ pc[p] = "done" =>
                 /\ result[p].kind = "number"
                 /\ hist[p].caught > 0 => result[p] = Num(0))
  /\ [][\A p \in Procs :
          (pc[p] \in {"inv", "inv_stale"} /\ hist'[p].caught > hist[p].caught)
            => /\ pc'[p] = "done"
               /\ result'[p] = IF call[p].op \in InvOps THEN Num(0)
                               ELSE Val(call[p].value)
               /\ statistics'.errors = statistics.errors + 1
               /\ statistics'.deletes = statistics.deletes]_vars

\* C13 witness: an invalidateEntity call whose backend deletion was rejected has
\* returned 0 with the error counted, no delete counted and the entry still cached
C13_Witness ==
  \E p \in Procs :
    /\ Done(p, "invalidateEntity") /\ hist[p].caught = 1
    /\ result[p] = Num(0)
    /\ statistics.errors >= 1 /\ statistics.deletes = 0
    /\ getFullKey("E:id:1") \in DOMAIN store

\* C14: every backend error that reaches get, set, delete or invalidatePattern is
\* swallowed, adds one to statistics.errors and, with the breaker enabled, adds one
\* to the breaker's error count.
C14_UniformHandling ==
  [][\A p \in Procs :
       ( /\ call[p].op \in {"get", "set", "delete", "invalidatePattern"}
         /\ hist'[p].caught = hist[p].caught + 1 )
       => /\ result'[p].kind # "error"
          /\ statistics'.errors = statistics.errors + 1
          /\ options.circuitBreaker => cb'.errors = cb.errors + 1]_vars

\* C15: a warmCache call that meets no backend failure does not fail, and has
\* written the entry of every cacheable entity of its list that can be keyed.
C15_WarmBestEffort ==
  \A p \in Procs :
    (Done(p, "warmCache") /\ faultsLeft = MaxFaults)
      => /\ result[p] = Val(Null)
         /\ \A i \in DOMAIN call[p].entities :
              LET e == call[p].entities[i]
              IN  (e.cacheable /\ forEntity(e) # "")
                    => getFullKey(forEntity(e)) \in hist[p].wrote

(* ------------------------- CacheLock called directly -------------------- *)
\* what fn and onLockFailed resolve to
FnValues == {300}
FallbackValues == {400}
\* what a callback may do: resolve, reject
CallbackOutcomes == {"value", "throw"}

\* withLock, lock body: return await fn(); a rejection leaves through finally
WlFn(p) ==
  /\ pc[p] = "wl_fn"
  /\ \E out \in CallbackOutcomes, v \in FnValues :
       loc' = IF out = "value" THEN [loc EXCEPT ![p].data = v]
              ELSE [loc EXCEPT ![p].err = "fn"]
  /\ hist' = [hist EXCEPT ![p].fnRan = TRUE]
  /\ pc' = [pc EXCEPT ![p] = "release"]
  /\ UNCHANGED <<options, store, statistics, cb, call, result, fetchCount, faultsLeft,
                 expired, memVars, entVars, ncalls>>

\* withLock, acquisition failed: return await options.onLockFailed()
WlFailed(p) ==
  /\ pc[p] = "wl_failed"
  /\ \E out \in CallbackOutcomes, v \in FallbackValues :
       result' = [result EXCEPT ![p] = IF out = "value" THEN Val(v)
                                       ELSE Err("onLockFailed")]
  /\ hist' = [hist EXCEPT ![p].fbRan = TRUE]
  /\ pc' = [pc EXCEPT ![p] = "done"]
  /\ UNCHANGED <<options, store, statistics, cb, call, loc, fetchCount, faultsLeft,
                 expired, memVars, entVars, ncalls>>

\* the holder of a lock stops for good inside fn (its process dies): the finally
\* block of withLock never runs
Crash(p) ==
  /\ pc[p] = "wl_fn"
  /\ pc' = [pc EXCEPT ![p] = "crashed"]
  /\ UNCHANGED <<options, store, statistics, cb, call, loc, result, hist, fetchCount,
                 faultsLeft, expired, memVars, entVars, ncalls>>

\* a caller calls lock.acquire(k) (ttl and maxRetries as bounded above)
StartAcquire(p) ==
  /\ pc[p] = "idle"
  /\ \E k \in Keys :
       call' = [call EXCEPT ![p] = [NoCall EXCEPT !.op = "acquire", !.key = k]]
  /\ IF 0 < MaxRetries
     THEN pc' = [pc EXCEPT ![p] = "acq_exists"] /\ result' = result
     ELSE pc' = [pc EXCEPT ![p] = "done"]
          /\ result' = [result EXCEPT ![p] = Bool(FALSE)]
  /\ loc' = loc
  /\ ncalls < MaxCalls
  /\ ncalls' = ncalls + 1
  /\ UNCHANGED <<options, store, statistics, cb, hist, fetchCount, faultsLeft, expired, memVars, entVars>>

\* a caller calls lock.withLock(k, fn, {onLockFailed?})
StartWithLock(p) ==
  /\ pc[p] = "idle"
  /\ \E k \in Keys, f \in BOOLEAN :
       /\ call' = [call EXCEPT ![p] = [NoCall EXCEPT !.op = "withLock", !.key = k,
                                         !.fallback = f]]
       /\ IF 0 < MaxRetries
          THEN pc' = [pc EXCEPT ![p] = "acq_exists"] /\ result' = result
          ELSE IF f THEN pc' = [pc EXCEPT ![p] = "wl_failed"] /\ result' = result
          ELSE pc' = [pc EXCEPT ![p] = "done"]
               /\ result' = [result EXCEPT ![p] = Err("lock")]
  /\ loc' = loc
  /\ ncalls < MaxCalls
  /\ ncalls' = ncalls + 1
  /\ UNCHANGED <<options, store, statistics, cb, hist, fetchCount, faultsLeft, expired, memVars, entVars>>

\* a caller calls lock.release(k)
StartRelease(p) ==
  /\ pc[p] = "idle"
  /\ \E k \in Keys :
       call' = [call EXCEPT ![p] = [NoCall EXCEPT !.op = "release", !.key = k]]
  /\ pc' = [pc EXCEPT ![p] = "release"]
  /\ loc' = loc
  /\ StartFrame(p)

\* the backend rejects no call
Healthy == Constructed /\ faultsLeft = 0

\* the options of a cache the lock is used without: CacheLock reads none of them
LockOptions ==
  [stampedeProtection |-> FALSE, staleWhileRevalidate |-> FALSE, keyPrefix |-> "",
   circuitBreaker |-> FALSE, invalidateRelations |-> FALSE]

\* direct CacheLock calls, concurrent, one per caller, the backend rejecting some
InitLock == Init /\ options = LockOptions
LockStep(p) ==
  \/ AcqExists(p) \/ AcqSet(p) \/ WlFn(p) \/ WlFailed(p) \/ Release(p)
NextLock ==
  \E p \in Procs :
    StartAcquire(p) \/ StartWithLock(p) \/ StartRelease(p) \/ LockStep(p)
SpecLock == InitLock /\ [][NextLock]_vars

\* acquire and release called directly, concurrent and repeated, the backend
\* rejecting some calls
InitAcquire == InitLock
NextAcquire ==
  \E p \in Procs :
    \/ StartAcquire(p) \/ StartRelease(p)
    \/ AcqExists(p) \/ AcqSet(p) \/ Release(p) \/ Again(p)
SpecAcquire == InitAcquire /\ [][NextAcquire]_vars

\* awaited promises settle and the retry delay elapses: a caller inside acquire
\* always gets to make its next attempt
FairSpecAcquire ==
  SpecAcquire /\ \A p \in Procs : WF_vars(AcqExists(p) \/ AcqSet(p))

\* withLock calls without onLockFailed, concurrent and repeated, on a healthy
\* backend where lock entries reach their expiry while fn still runs
InitTakeover == Healthy /\ options = LockOptions
NextTakeover ==
  \/ \E p \in Procs :
        \/ StartWithLock(p) /\ ~call'[p].fallback
        \/ AcqExists(p) \/ AcqSet(p) \/ WlFn(p) \/ Release(p) \/ Again(p)
  \/ \E k \in DOMAIN store : Expire(k)
SpecTakeover == InitTakeover /\ [][NextTakeover]_vars

\* acquire calls and withLock calls without onLockFailed, one per caller, on a
\* healthy backend; holders may die inside fn and lock entries reach their expiry
InitCrash == Healthy /\ options = LockOptions
NextCrash ==
  \/ \E p \in Procs :
        \/ StartAcquire(p)
        \/ StartWithLock(p) /\ ~call'[p].fallback
        \/ AcqExists(p) \/ AcqSet(p) \/ WlFn(p) \/ Release(p) \/ Crash(p)
  \/ \E k \in DOMAIN store : Expire(k)
SpecCrash == InitCrash /\ [][NextCrash]_vars

\* the backend's expiry of an entry stored with a ttl always comes
FairSpecExpiry == SpecCrash /\ WF_vars(\E k \in DOMAIN store : Expire(k))

\* C16: a withLock call that ran fn has executed release(key) when it ends, and
\* ends with fn's result, or with fn's error when fn threw.
C16_GuaranteedRelease ==
  \A p \in Procs :
    (Done(p, "withLock") /\ hist[p].fnRan)
      => /\ hist[p].released
         /\ result[p] = IF loc[p].err # "none" THEN Err(loc[p].err)
                        ELSE Val(loc[p].data)

\* C17: a withLock call whose acquisition failed never runs fn and performs no
\* release; it ends with the outcome of onLockFailed when that is supplied and with
\* the lock-acquisition error otherwise.
C17_LockFailed ==
  \A p \in Procs :
    (call[p].op = "withLock" /\ hist[p].lockFailed)
      => /\ ~hist[p].fnRan /\ ~hist[p].released /\ ~loc[p].held
         /\ pc[p] \in {"wl_failed", "done"}
         /\ pc[p] = "wl_failed" => call[p].fallback
         /\ pc[p] = "done" =>
              IF call[p].fallback
              THEN /\ hist[p].fbRan
                   /\ result[p] \in {Val(v) : v \in FallbackValues}
                                      \cup {Err("onLockFailed")}
              ELSE /\ ~hist[p].fbRan
                   /\ result[p] = Err("lock")

\* C17 witness: while another caller holds the lock, a withLock call with
\* onLockFailed has used up its attempts and returned onLockFailed's value, having
\* neither run fn nor released
C17_Witness ==
  \E p, q \in Procs :
    /\ Done(p, "withLock") /\ hist[p].lockFailed /\ call[p].fallback
    /\ hist[p].fbRan /\ ~hist[p].fnRan /\ ~hist[p].released
    /\ result[p] \in {Val(v) : v \in FallbackValues}
    /\ q # p /\ loc[q].held /\ ProviderGet(store, LockKeyOf(p)) = q

\* C18: acquire makes at most MaxRetries attempts, never raises, returns true from
\* the attempt that found the lock free and stored its value, returns false exactly
\* when MaxRetries attempts have failed, and always returns.
C18_AcquireTerminates ==
  /\ [](\A p \in Procs :
          call[p].op = "acquire" =>
            /\ loc[p].i <= MaxRetries
            /\ pc[p] \in {"acq_exists", "acq_set"} => loc[p].i < MaxRetries
            /\ result[p].kind # "error"
            /\ pc[p] = "done" =>
                 \/ result[p] = Bool(TRUE) /\ loc[p].i < MaxRetries
                 \/ result[p] = Bool(FALSE) /\ loc[p].i = MaxRetries)
  /\ [][\A p \in Procs :
          ( /\ call[p].op = "acquire" /\ pc[p] = "acq_set"
            /\ pc'[p] # "acq_set" /\ faultsLeft' = faultsLeft )
          => /\ pc'[p] = "done" /\ result'[p] = Bool(TRUE)
             /\ ProviderGet(store', LockKeyOf(p)) = p]_vars
  /\ \A p \in Procs :
       (call[p].op = "acquire" /\ pc[p] # "done") ~> (pc[p] = "done")

\* C18 witness: an acquire has returned false after MaxRetries failed attempts, one
\* of them a backend error, while another acquire returned true
C18_Witness ==
  \E p, q \in Procs :
    /\ Done(p, "acquire") /\ result[p] = Bool(FALSE) /\ loc[p].i = MaxRetries
    /\ faultsLeft < MaxFaults
    /\ Done(q, "acquire") /\ result[q] = Bool(TRUE)

\* C19: a release that goes through removes the lock key whatever value it holds.
C19_ReleaseUnconditional ==
  [][\A p \in Procs :
       (pc[p] = "release" /\ pc'[p] # "release" /\ faultsLeft' = faultsLeft)
         => LockKeyOf(p) \notin DOMAIN store']_vars

\* C19 witness: q acquired the lock after it had expired under another caller, that
\* caller's release then removed q's lock, and p has acquired the lock while q is
\* still inside fn
C19_Witness ==
  \E p, q \in Procs :
    /\ p # q
    /\ call[q].op = "withLock" /\ pc[q] = "wl_fn" /\ loc[q].held
    /\ hist[q].tookOver /\ hist[q].robbed
    /\ loc[p].held /\ ProviderGet(store, LockKeyOf(q)) = p
    /\ LockKeyOf(p) = LockKeyOf(q)

\* C20: every lock entry carries the lock ttl; the lock of a holder that crashed is
\* eventually gone; an attempt that finds the lock key gone goes on to store its own
\* lock value, and holds the lock once that is stored.
C20_CrashedLockExpires ==
  /\ [](\A k \in DOMAIN store : store[k].ttl = DEFAULT_LOCK_TTL /\ store[k].ttl > 0)
  /\ \A p \in Procs :
       (pc[p] = "crashed" /\ ProviderGet(store, LockKeyOf(p)) = p)
         ~> (ProviderGet(store, LockKeyOf(p)) # p)
  /\ [][\A q \in Procs :
          /\ ( /\ pc[q] = "acq_exists" /\ LockKeyOf(q) \notin DOMAIN store
               /\ faultsLeft' = faultsLeft
               /\ <<pc'[q], loc'[q]>> # <<pc[q], loc[q]>> )
             => pc'[q] = "acq_set"
          /\ ( /\ pc[q] = "acq_set" /\ pc'[q] # "acq_set"
               /\ faultsLeft' = faultsLeft )
             => loc'[q].held /\ ProviderGet(store', LockKeyOf(q)) = q]_vars

\* C20 witness: the lock of a crashed holder has expired and a later acquire on the
\* same key has returned true
C20_Witness ==
  \E p, q \in Procs :
    /\ pc[p] = "crashed" /\ loc[p].held /\ LockKeyOf(p) \in expired
    /\ Done(q, "acquire") /\ result[q] = Bool(TRUE) /\ hist[q].tookOver
    /\ LockKeyOf(q) = LockKeyOf(p)
    /\ ProviderGet(store, LockKeyOf(q)) = q

(* ------------------ MemoryCacheProvider, the in-process backend ---------- *)
\* the clock stops at this instant
MaxTime == 5
\* clock ticks in one second (the code's clock counts 1000 ms in a second)
TicksPerSecond == 2
\* keys, values, ttl arguments (seconds; 0: omitted) and globs given to the backend
MemKeys == {"a:1", "a:12", "b:1"}
MemValues == {1, 2}
MemTTLs == {0, 1, 2}
MemPatterns == {"a:*", "*:1", "a:1", "*"}

\* the variables the in-process backend never touches
engineVars == <<options, store, statistics, cb, fetchCount, faultsLeft, expired>>

\* Map.delete(key)
MapDelete(m, k) == [x \in DOMAIN m \ {k} |-> m[x]]
\* Map.set(key, e)
MapSet(m, k, e) == [x \in DOMAIN m \cup {k} |-> IF x = k THEN e ELSE m[x]]

\* the expiry test of get, exists and keys: entry.expiresAt && entry.expiresAt < Date.now()
\* (expiresAt 0: no expiresAt)
IsExpired(e, t) == e.expiresAt # 0 /\ e.expiresAt < t

\* MemoryCacheProvider.get on cache c at instant t: [v: the value returned,
\* c: the cache afterwards]
memGet(c, k, t) ==
  IF k \notin DOMAIN c THEN [v |-> Null, c |-> c]
  ELSE IF IsExpired(c[k], t) THEN [v |-> Null, c |-> MapDelete(c, k)]
  ELSE [v |-> c[k].value, c |-> c]

\* MemoryCacheProvider.exists: [v: the boolean returned, c: the cache afterwards]
memExists(c, k, t) ==
  IF k \notin DOMAIN c THEN [v |-> FALSE, c |-> c]
  ELSE IF IsExpired(c[k], t) THEN [v |-> FALSE, c |-> MapDelete(c, k)]
  ELSE [v |-> TRUE, c |-> c]

\* MemoryCacheProvider.set: the existing timer is cleared; with a ttl the entry gets
\* expiresAt = Date.now() + ttl * 1000 and a timer due after ttl * 1000
memSet(c, tm, k, v, ttl, t) ==
  IF ttl # 0
  THEN [c  |-> MapSet(c, k, [value |-> v, expiresAt |-> t + ttl * TicksPerSecond]),
        tm |-> MapSet(tm, k, t + ttl * TicksPerSecond)]
  ELSE [c  |-> MapSet(c, k, [value |-> v, expiresAt |-> 0]),
        tm |-> MapDelete(tm, k)]

\* clearTimeout(this.timers.get(key)) for every key of K that has a timer in the
\* map: the pending timeout the map holds for the key is cancelled
clearTimeouts(to, tm, K) ==
  to (-) SetToBag({[key |-> k, due |-> tm[k]] : k \in K \cap DOMAIN tm})

\* setTimeout(() => { cache.delete(key); timers.delete(key) }, ms), due at instant d
setTimeout(to, k, d) == to (+) SetToBag({[key |-> k, due |-> d]})

\* the pending timeouts after MemoryCacheProvider.set: the key's timer is cleared,
\* and with a ttl a new one is armed
setTimeouts(to, tm, k, ttl, t) ==
  IF ttl # 0 THEN setTimeout(clearTimeouts(to, tm, {k}), k, t + ttl * TicksPerSecond)
  ELSE clearTimeouts(to, tm, {k})

\* MemoryCacheProvider.delete: clears the timer, returns this.cache.delete(key)
memDelete(c, tm, k) ==
  [v |-> k \in DOMAIN c, c |-> MapDelete(c, k), tm |-> MapDelete(tm, k)]

\* new RegExp(`^${escaped}$`) without the closing `$`
RECURSIVE regexTest_NoEndAnchor(_, _)
regexTest_NoEndAnchor(pat, k) ==
  IF pat = "" THEN TRUE
  ELSE LET c    == SubSeq(pat, 1, 1)
           rest == SubSeq(pat, 2, Len(pat))
       IN  IF c = "*"
           THEN \/ regexTest_NoEndAnchor(rest, k)
                \/ k # "" /\ regexTest_NoEndAnchor(pat, SubSeq(k, 2, Len(k)))
           ELSE /\ k # ""
                /\ c = "?" \/ SubSeq(k, 1, 1) = c
                /\ regexTest_NoEndAnchor(rest, SubSeq(k, 2, Len(k)))

\* patternToRegex(pattern).test(key): '*' became '.*', '?' became '.', every other
\* character stands for itself (the regex specials are escaped), anchored at both ends
RECURSIVE regexTest(_, _)
regexTest(pat, k) ==
  IF pat = "" THEN k = ""
  ELSE LET c    == SubSeq(pat, 1, 1)
           rest == SubSeq(pat, 2, Len(pat))
       IN  IF c = "*"
           THEN \/ regexTest(rest, k)
                \/ k # "" /\ regexTest(pat, SubSeq(k, 2, Len(k)))
           ELSE /\ k # ""
                /\ c = "?" \/ SubSeq(k, 1, 1) = c
                /\ regexTest(rest, SubSeq(k, 2, Len(k)))

\* MemoryCacheProvider.deletePattern: every key of the map the regex accepts is
\* deleted (delete has no await: the forEach completes before the return)
memDeletePattern(c, tm, pat) ==
  LET keysToDelete == {k \in DOMAIN c : regexTest(pat, k)}
  IN  [v  |-> Cardinality(keysToDelete),
       c  |-> [x \in DOMAIN c \ keysToDelete |-> c[x]],
       tm |-> [x \in DOMAIN tm \ keysToDelete |-> tm[x]]]

\* MemoryCacheProvider.ttl
memTtl(c, k, t) ==
  IF k \notin DOMAIN c THEN 0 - 2
  ELSE IF c[k].expiresAt = 0 THEN 0 - 1
  ELSE LET remaining == (c[k].expiresAt - t) \div TicksPerSecond
       IN  IF remaining > 0 THEN remaining ELSE 0 - 2

\* a call of the backend that has no await: it starts, runs and returns in one step
MemCall(p, c, r) ==
  /\ pc[p] = "idle"
  /\ ncalls < MaxCalls
  /\ ncalls' = ncalls + 1
  /\ call' = [call EXCEPT ![p] = c]
  /\ result' = [result EXCEPT ![p] = r]
  /\ pc' = [pc EXCEPT ![p] = "done"]
  /\ UNCHANGED <<engineVars, entVars, loc, hist>>

MemGet(p) ==
  \E k \in MemKeys :
    LET r == memGet(cache, k, now)
    IN  /\ MemCall(p, [NoCall EXCEPT !.op = "mem.get", !.key = k], Val(r.v))
        /\ cache' = r.c
        /\ UNCHANGED <<timers, timeouts, now, lastSet>>

MemExists(p) ==
  \E k \in MemKeys :
    LET r == memExists(cache, k, now)
    IN  /\ MemCall(p, [NoCall EXCEPT !.op = "mem.exists", !.key = k], Bool(r.v))
        /\ cache' = r.c
        /\ UNCHANGED <<timers, timeouts, now, lastSet>>

MemSet(p) ==
  \E k \in MemKeys, v \in MemValues, ttl \in MemTTLs :
    LET r == memSet(cache, timers, k, v, ttl, now)
    IN  /\ MemCall(p, [NoCall EXCEPT !.op = "mem.set", !.key = k, !.value = v,
                                     !.ttl = ttl], Val(Null))
        /\ cache' = r.c
        /\ timers' = r.tm
        /\ timeouts' = setTimeouts(timeouts, timers, k, ttl, now)
        /\ lastSet' = MapSet(lastSet, k, [value |-> v, ttl |-> ttl, at |-> now])
        /\ now' = now

MemDelete(p) ==
  \E k \in MemKeys :
    LET r == memDelete(cache, timers, k)
    IN  /\ MemCall(p, [NoCall EXCEPT !.op = "mem.delete", !.key = k], Bool(r.v))
        /\ cache' = r.c
        /\ timers' = r.tm
        /\ timeouts' = clearTimeouts(timeouts, timers, {k})
        /\ lastSet' = MapDelete(lastSet, k)
        /\ now' = now

MemDeletePattern(p) ==
  \E pat \in MemPatterns :
    LET r == memDeletePattern(cache, timers, pat)
    IN  /\ MemCall(p, [NoCall EXCEPT !.op = "mem.deletePattern", !.key = pat],
                   Num(r.v))
        /\ cache' = r.c
        /\ timers' = r.tm
        /\ timeouts' = clearTimeouts(timeouts, timers,
                                     {k \in DOMAIN cache : regexTest(pat, k)})
        /\ lastSet' = [x \in DOMAIN lastSet \cap DOMAIN r.c |-> lastSet[x]]
        /\ now' = now

MemTtl(p) ==
  \E k \in MemKeys :
    /\ MemCall(p, [NoCall EXCEPT !.op = "mem.ttl", !.key = k],
               Num(memTtl(cache, k, now)))
    /\ UNCHANGED <<cache, timers, timeouts, now, lastSet>>

\* a pending timeout armed for key k comes due and its callback runs:
\* this.cache.delete(key); this.timers.delete(key)
TimerFire(k) ==
  /\ \E x \in BagToSet(timeouts) :
       /\ x.key = k /\ x.due <= now
       /\ timeouts' = timeouts (-) SetToBag({x})
  /\ cache' = MapDelete(cache, k)
  /\ timers' = MapDelete(timers, k)
  /\ UNCHANGED <<engineVars, entVars, pc, call, loc, result, hist, ncalls, now, lastSet>>

\* the clock advances
Tick ==
  /\ now < MaxTime
  /\ now' = now + 1
  /\ UNCHANGED <<engineVars, entVars, pc, call, loc, result, hist, ncalls, cache, timers,
                 timeouts, lastSet>>


\* calls of the in-process backend on one key by concurrent callers while the clock
\* advances and its timers come due
TimedKeys == {"a:1"}
InitMem == Healthy /\ options = LockOptions
NextMem ==
  \/ \E p \in Procs :
        \/ (MemGet(p) \/ MemExists(p) \/ MemSet(p) \/ MemDelete(p) \/ MemTtl(p))
             /\ call'[p].key \in TimedKeys
        \/ Again(p)
  \/ \E k \in DOMAIN timers : TimerFire(k)
  \/ Tick
SpecMem == InitMem /\ [][NextMem]_vars

\* what get(k) has to return now: the value of the last set of k that was not
\* deleted, while less than its ttl seconds have gone by since (ttl 0: for good)
Expected(k) ==
  IF /\ k \in DOMAIN lastSet
     /\ \/ lastSet[k].ttl = 0
        \/ now < lastSet[k].at + lastSet[k].ttl * TicksPerSecond
  THEN lastSet[k].value ELSE Null

\* C21: every get(k) returns the value of the last set of k while less than its ttl
\* seconds have elapsed, and null for a key never set or deleted and at every instant
\* from ttl seconds on; every exists(k) returns whether that get returns a value.
C21_GetWithinTTL ==
  [][\A p \in Procs :
       (pc[p] = "idle" /\ pc'[p] = "done")
         => /\ call'[p].op = "mem.get"
                 => result'[p] = Val(Expected(call'[p].key))
            /\ call'[p].op = "mem.exists"
                 => result'[p] = Bool(Expected(call'[p].key) # Null)]_vars

\* C22: every ttl(k) returns -2 exactly when get(k) returns null, -1 exactly when k
\* is there without expiry, and otherwise a positive number of seconds not above
\* the ttl k was set with.
C22_TtlConvention ==
  [][\A p \in Procs :
       (pc[p] = "idle" /\ pc'[p] = "done" /\ call'[p].op = "mem.ttl")
         => LET k == call'[p].key
                r == result'[p].v
            IN  /\ r = 0 - 2 <=> memGet(cache, k, now).v = Null
                /\ r = 0 - 1 <=> /\ memGet(cache, k, now).v # Null
                                 /\ cache[k].expiresAt = 0
                /\ r \notin {0 - 1, 0 - 2}
                     => /\ r > 0
                        /\ k \in DOMAIN lastSet /\ r <= lastSet[k].ttl]_vars


\* sets and pattern deletions on the in-process backend, made one after the other
\* by one caller (no method involved has an await) while the clock advances, no
\* entry coming due
Caller == 1
InitPattern == InitMem
NextPattern ==
  \/ MemSet(Caller) /\ call'[Caller].value = 1
  \/ MemDeletePattern(Caller) \/ Again(Caller)
  \/ Tick /\ \A k \in DOMAIN timers : now' < timers[k]
SpecPattern == InitPattern /\ [][NextPattern]_vars

\* glob match where '*' stands for any sequence of characters and every other
\* character for itself (globs with at most one '*')
GlobMatches(pat, k) ==
  LET stars == {i \in 1..Len(pat) : SubSeq(pat, i, i) = "*"}
  IN  IF stars = {} THEN k = pat
      ELSE LET i   == CHOOSE j \in stars : TRUE
               pre == SubSeq(pat, 1, i - 1)
               suf == SubSeq(pat, i + 1, Len(pat))
           IN  /\ Len(k) >= Len(pre) + Len(suf)
               /\ SubSeq(k, 1, Len(pre)) = pre
               /\ SubSeq(k, Len(k) - Len(suf) + 1, Len(k)) = suf

\* C23: deletePattern(glob) removes exactly the stored keys that match the glob,
\* returns how many it removed, and leaves every other key with its value, its
\* expiry instant and its timer.
C23_DeletePatternExact ==
  [][\A p \in Procs :
       (pc[p] = "idle" /\ pc'[p] = "done" /\ call'[p].op = "mem.deletePattern")
         => LET M == {k \in DOMAIN cache : GlobMatches(call'[p].key, k)}
            IN  /\ DOMAIN cache' = DOMAIN cache \ M
                /\ result'[p] = Num(Cardinality(M))
                /\ \A k \in DOMAIN cache' : cache'[k] = cache[k]
                /\ \A k \in MemKeys \ M :
                     /\ k \in DOMAIN timers' <=> k \in DOMAIN timers
                     /\ k \in DOMAIN timers => timers'[k] = timers[k]]_vars

\* C23 witness: with a:1, a:12 and b:1 stored, deletePattern("a:*") has returned 2
\* and b:1 alone is left, with the value and ttl it was set with
C23_Witness ==
  \E p \in Procs :
    /\ pc[p] = "done" /\ call[p].op = "mem.deletePattern" /\ call[p].key = "a:*"
    /\ result[p] = Num(2)
    /\ DOMAIN cache = {"b:1"} /\ DOMAIN lastSet = {"b:1"}
    /\ cache["b:1"].value = lastSet["b:1"].value
    /\ lastSet["b:1"].ttl # 0 /\ "b:1" \in DOMAIN timers


\* C24: an engine delete returns true exactly when the key was in the backend and
\* the call removed it.
C24_DeleteReports ==
  [][\A p \in Procs :
       (call[p].op = "delete" /\ pc[p] = "del" /\ pc'[p] = "done")
         => LET k == getFullKey(call[p].key)
            IN  result'[p] = Bool(TRUE)
                  <=> (k \in DOMAIN store /\ k \notin DOMAIN store')]_vars


(* ------------------- increment / decrement of the backend ---------------- *)
CounterKeys == {"n", "m"}

\* increment / decrement up to the first await: this.get(key) runs (it has no await
\* of its own), then the caller is suspended on its promise
StartIncrement(p) ==
  /\ pc[p] = "idle"
  /\ ncalls < MaxCalls
  /\ ncalls' = ncalls + 1
  /\ \E k \in CounterKeys, op \in {"mem.increment", "mem.decrement"} :
       LET r == memGet(cache, k, now)
       IN  /\ call' = [call EXCEPT ![p] = [NoCall EXCEPT !.op = op, !.key = k]]
           /\ loc' = [loc EXCEPT ![p].data = r.v]
           /\ cache' = r.c
  /\ pc' = [pc EXCEPT ![p] = "inc_set"]
  /\ UNCHANGED <<engineVars, entVars, result, hist, timers, timeouts, now, lastSet>>

\* const current = (awaited) || 0; newValue = current + by (- by for decrement);
\* this.set(key, newValue) runs, then the caller is suspended on its promise
IncSet(p) ==
  /\ pc[p] = "inc_set"
  /\ LET newValue == IF call[p].op = "mem.increment" THEN loc[p].data + 1
                     ELSE loc[p].data - 1
         r == memSet(cache, timers, call[p].key, newValue, 0, now)
     IN  /\ loc' = [loc EXCEPT ![p].data = newValue]
         /\ cache' = r.c
         /\ timers' = r.tm
         /\ timeouts' = setTimeouts(timeouts, timers, call[p].key, 0, now)
         /\ lastSet' = MapSet(lastSet, call[p].key,
                              [value |-> newValue, ttl |-> 0, at |-> now])
  /\ pc' = [pc EXCEPT ![p] = "inc_ret"]
  /\ UNCHANGED <<engineVars, entVars, call, result, hist, ncalls, now>>

\* return newValue
IncReturn(p) ==
  /\ pc[p] = "inc_ret"
  /\ result' = [result EXCEPT ![p] = Num(loc[p].data)]
  /\ pc' = [pc EXCEPT ![p] = "done"]
  /\ UNCHANGED <<engineVars, entVars, call, loc, hist, ncalls, memVars>>

\* one increment or decrement per caller, concurrent, on counters that start absent
InitCounter == InitMem
NextCounter == \E p \in Procs : StartIncrement(p) \/ IncSet(p) \/ IncReturn(p)
SpecCounter == InitCounter /\ [][NextCounter]_vars

\* the calls on counter k of kind op that have returned
Returned(k, op) ==
  {p \in Procs : pc[p] = "done" /\ call[p].key = k /\ call[p].op = op}

\* C25: once every increment / decrement that was started has returned, each counter
\* holds the number of increments minus the number of decrements made on it, and
\* the increments of one counter have returned pairwise distinct values.
C25_AtomicCounters ==
  (\A p \in Procs : pc[p] \in {"idle", "done"})
    => \A k \in CounterKeys :
         /\ memGet(cache, k, now).v
              = Cardinality(Returned(k, "mem.increment"))
                  - Cardinality(Returned(k, "mem.decrement"))
         /\ Returned(k, "mem.decrement") = {}
              => \A p, q \in Returned(k, "mem.increment") :
                   p # q => result[p] # result[q]


(* --------------------- readThrough on different keys --------------------- *)
\* the keys read: two ordinary keys, and the key that spells the lock key of "k"
FetchKeys == {"k", "k2", "lock:fetch:k"}

\* concurrent readThrough calls on these keys (ttl omitted) with stampede protection
\* and no keyPrefix, against a backend that rejects no call
InitKeys ==
  /\ Constructed
  /\ options.stampedeProtection /\ ~options.staleWhileRevalidate
  /\ ~options.circuitBreaker /\ ~options.invalidateRelations
  /\ options.keyPrefix = ""
  /\ faultsLeft = 0
NextKeys ==
  \E p \in Procs :
    \/ StartReadThroughOf(p, FetchKeys) /\ call'[p].ttl = 0
    \/ RtGet(p) \/ AcqExists(p) \/ AcqSet(p) \/ LkGet(p) \/ LkFetch(p)
    \/ SetMain(p) \/ Release(p) \/ LfFetch(p)
SpecKeys == InitKeys /\ [][NextKeys]_vars


\* q is inside the lock it took for its key, which is another key than p's
HoldsOtherKey(q, p) ==
  /\ q # p
  /\ call[q].op = "readThrough" /\ call[q].key # call[p].key
  /\ loc[q].held /\ ProviderGet(store, LockKeyOf(q)) = q

\* C26: readThrough calls for different keys use different lock keys; an acquisition
\* attempt fails only when the lock key of the caller's own key is set, whatever
\* locks are held for other keys; and a release leaves the lock held for another
\* key in place.
C26_PerKeyLocks ==
  /\ [](\A p, q \in Procs :
          ( /\ call[p].op = "readThrough" /\ call[q].op = "readThrough"
            /\ call[p].key # call[q].key )
          => LockKeyOf(p) # LockKeyOf(q))
  /\ [][\A p \in Procs :
          /\ (pc[p] = "acq_exists" /\ loc'[p].i = loc[p].i + 1)
               => ProviderExists(store, FetchLockKey(call[p].key))
          /\ (pc[p] = "release" /\ pc'[p] # "release")
               => \A q \in Procs :
                    HoldsOtherKey(q, p) => ProviderGet(store', LockKeyOf(q)) = q]_vars

\* C26 witness: two readThrough calls for different keys are inside their locks at
\* the same time, each having acquired at its first attempt
C26_Witness ==
  \E p, q \in Procs :
    /\ HoldsOtherKey(q, p) /\ HoldsOtherKey(p, q)
    /\ call[p].key = "k" /\ call[q].key = "k2"
    /\ loc[p].i = 0 /\ loc[q].i = 0
    /\ pc[p] = "release" /\ pc[q] = "lk_fetch"

(* ----------------------------- key generation --------------------------- *)
\* a property that is not set on the entity (undefined)
Undefined == -1

\* class K declares two @CacheKey() properties: getCacheKeys(entity)
customKeys == <<"a", "b">>

\* extractCompositeKey.compositePatterns
compositePatterns ==
  <<(<<"userId", "organizationId">>), (<<"tenantId", "id">>), (<<"companyId", "id">>)>>

\* the instances of class K handed to forEntity
KeyedEntities ==
  [a : {Undefined, 1, 2}, b : {Undefined, 1, 2}, id : {Undefined, 0, 1},
   userId : {Undefined, 1}, organizationId : {Undefined, 1},
   tenantId : {Undefined, 1}, companyId : {Undefined, 2}]

\* parts.join(sep) of strings
RECURSIVE Join(_, _)
Join(parts, sep) ==
  IF Len(parts) = 0 THEN ""
  ELSE IF Len(parts) = 1 THEN parts[1]
  ELSE parts[1] \o sep \o Join(Tail(parts), sep)

\* pattern.map(key => entity[key]).filter(v => v !== undefined), as strings
Defined(e, fields) ==
  LET vs == [i \in DOMAIN fields |-> e[fields[i]]]
      ds == SelectSeq(vs, LAMBDA v : v # Undefined)
  IN  [i \in DOMAIN ds |-> ToString(ds[i])]

\* CacheKeyGenerator.buildKey(...parts): the parts joined by ':'
buildKey(parts) == Join(parts, ":")

\* CacheKeyGenerator.extractCompositeKey: the values of the first pattern whose
\* properties are all set, joined by '_'; "" stands for null
RECURSIVE extractCompositeKey(_, _)
extractCompositeKey(e, i) ==
  IF i > Len(compositePatterns) THEN ""
  ELSE IF Len(Defined(e, compositePatterns[i])) = Len(compositePatterns[i])
  THEN Join(Defined(e, compositePatterns[i]), "_")
  ELSE extractCompositeKey(e, i + 1)

\* CacheKeyGenerator.forEntity for an instance of class K (prefix: the class name);
\* `if (entity.id)` is false for an id that is not set and for the id 0; "" stands
\* for the thrown Error
forEntityK(e) ==
  LET keyValues == Defined(e, customKeys)
      compositeKey == extractCompositeKey(e, 1)
  IN  IF Len(customKeys) > 0 /\ Len(keyValues) > 0
      THEN buildKey(<<"K", "custom">> \o keyValues)
      ELSE IF e.id # Undefined /\ e.id # 0
      THEN buildKey(<<"K", "id", ToString(e.id)>>)
      ELSE IF compositeKey # ""
      THEN buildKey(<<"K", "composite", compositeKey>>)
      ELSE ""

\* the two callers of the key generator
KeyCallers == {1, 2}

\* a caller calls CacheKeyGenerator.forEntity(entity): synchronous, returns the key
\* or throws
KeyForEntity(p) ==
  /\ pc[p] = "idle"
  /\ \E e \in KeyedEntities :
       /\ arg' = [arg EXCEPT ![p] = e]
       /\ call' = [call EXCEPT ![p] = [NoCall EXCEPT !.op = "forEntity",
                                         !.key = forEntityK(e)]]
       /\ result' = [result EXCEPT ![p] =
                       IF forEntityK(e) = "" THEN Err("keygen") ELSE NoResult]
  /\ pc' = [pc EXCEPT ![p] = "done"]
  /\ UNCHANGED <<engineVars, memVars, loc, hist, ncalls, db, subscribed, frame,
                 transactionCache>>

\* two entities of class K are keyed
InitKeyGen == InitMem
NextKeyGen == \E p \in KeyCallers : KeyForEntity(p)
SpecKeyGen == InitKeyGen /\ [][NextKeyGen]_vars

\* the kind of a generated key: its second segment ("error": no key)
KeyKind(k) ==
  IF k = "" THEN "error"
  ELSE IF Len(k) >= 9 /\ SubSeq(k, 1, 9) = "K:custom:" THEN "custom"
  ELSE IF Len(k) >= 5 /\ SubSeq(k, 1, 5) = "K:id:" THEN "id"
  ELSE "composite"

\* the kind the priority order asks for: custom when all declared key properties
\* are set, else id when the entity has one, else composite when a known pair of
\* properties is set, else no key
PriorityKind(e) ==
  IF \A i \in DOMAIN customKeys : e[customKeys[i]] # Undefined THEN "custom"
  ELSE IF e.id # Undefined /\ e.id # 0 THEN "id"
  ELSE IF extractCompositeKey(e, 1) # "" THEN "composite"
  ELSE "error"

\* C30: forEntity gives a custom key only when all declared key properties of the
\* entity are set, else an id key when the entity has an id, else a composite key
\* from a known pair of properties, else it fails; and two entities of the type
\* that differ in a declared key property never get the same key.
C30_KeyPriority ==
  /\ \A p \in KeyCallers :
       Done(p, "forEntity") => KeyKind(call[p].key) = PriorityKind(arg[p])
  /\ \A p, q \in KeyCallers :
       /\ Done(p, "forEntity") /\ Done(q, "forEntity")
       /\ call[p].key # "" /\ call[q].key # ""
       /\ \E i \in DOMAIN customKeys : arg[p][customKeys[i]] # arg[q][customKeys[i]]
       => call[p].key # call[q].key

(* ----------------------------- entity layer ----------------------------- *)
\* the instance of class E with id 1; E extends CachedBaseEntity and carries
\* @CacheableEntity() with its defaults (writeThrough: true, ttl: 3600), and the
\* cache service is set on CachedBaseEntity
TheEntity == [cacheable |-> TRUE, id |-> 1]
writeThrough == TRUE

\* the states of the entity that the application saves
EntityStates == {201, 202}

\* CacheKeyGenerator.pattern(entityName, type)
patternOf(name, type) == name \o ":" \o type \o ":*"

\* hashObject({}): the first 16 hex digits of sha256('{}')
hashObject == "44136fa355b3678a"

\* CacheKeyGenerator.forFind(entityName, options || {})
forFind(name) == name \o ":find:" \o hashObject

\* one awaited call of an entity-layer method: the store operation, or the engine
\* call and its key / pattern
Await(f, a) == [f |-> f, a |-> a]

\* CacheSubscriber.afterInsert / afterUpdate (no relation column changed) /
\* afterRemove: the engine calls they await, in order
afterInsert(key) ==
  IF writeThrough
  THEN <<Await("set", key), Await("inv", patternOf("E", "query")),
         Await("inv", patternOf("E", "find")), Await("inv", patternOf("E", "count"))>>
  ELSE << >>
afterUpdate(key) ==
  IF writeThrough
  THEN <<Await("set", key), Await("inv", patternOf("E", "query")),
         Await("inv", patternOf("E", "find")), Await("inv", key \o ":relation:*")>>
  ELSE << >>
afterRemove(key) ==
  <<Await("del", key), Await("inv", patternOf("E", "query")),
    Await("inv", patternOf("E", "find")), Await("inv", patternOf("E", "count")),
    Await("inv", key \o ":relation:*")>>

\* the subscriber hooks the DataSource runs inside super.save / super.remove
Hooks(event, key) ==
  IF ~subscribed THEN << >>
  ELSE CASE event = "insert" -> afterInsert(key)
         [] event = "update" -> afterUpdate(key)
         [] event = "remove" -> afterRemove(key)
         [] OTHER -> << >>

\* CachedBaseEntity.save without the write-to-cache block
save_NoCacheWrite(f) == <<Await("db.save", "")>> \o Hooks(f.event, forEntity(TheEntity))

\* CachedBaseEntity.save: result = await super.save(); then set(cacheKey, result,
\* ttl) and invalidatePattern(pattern(entityName, 'query'))
save(f) ==
  <<Await("db.save", "")>> \o Hooks(f.event, forEntity(TheEntity))
    \o (IF writeThrough
        THEN <<Await("set", forEntity(TheEntity)),
               Await("inv", patternOf("E", "query"))>>
        ELSE << >>)

\* CachedBaseEntity.remove: delete(cacheKey), invalidatePattern(query pattern),
\* invalidatePattern(`${cacheKey}:relation:*`), then await super.remove()
remove(f) ==
  <<Await("del", forEntity(TheEntity)), Await("inv", patternOf("E", "query")),
    Await("inv", forEntity(TheEntity) \o ":relation:*"), Await("db.remove", "")>>
    \o Hooks(f.event, forEntity(TheEntity))

\* a store transaction that saves the entity: the store write and the hooks the
\* DataSource runs for it before the transaction ends; then, once committed, the
\* operations afterTransactionCommit finds in transactionCache (executeOperation)
transaction(f) ==
  <<Await("db.save", "")>> \o Hooks(f.event, forEntity(TheEntity))
    \o (IF f.tx = "committing" /\ f.tid \in DOMAIN transactionCache
        THEN transactionCache[f.tid] ELSE << >>)

\* the awaited calls of the entity-layer method in progress
Awaits(f) ==
  CASE f.op = "save" -> save(f)
    [] f.op = "transaction" -> transaction(f)
    [] OTHER -> remove(f)

\* TTCacheModule.onModuleInit: the CacheSubscriber is pushed to
\* dataSource.subscribers when the DataSource is there and initialized (before the
\* application makes its first call)
RegisterSubscriber ==
  /\ ~subscribed
  /\ ncalls = 0
  /\ subscribed' = TRUE
  /\ UNCHANGED <<engineVars, memVars, pc, call, loc, result, hist, ncalls, db, frame,
                 transactionCache, arg>>

\* the application calls entity.save() with a new state of the entity
StartSave(p) ==
  /\ pc[p] = "idle"
  /\ ncalls < MaxCalls
  /\ ncalls' = ncalls + 1
  /\ \E v \in EntityStates :
       frame' = [frame EXCEPT ![p] = [NoFrame EXCEPT !.op = "save", !.v = v]]
  /\ pc' = [pc EXCEPT ![p] = "ent"]
  /\ UNCHANGED <<engineVars, memVars, call, loc, result, hist, db, subscribed,
                 transactionCache, arg>>

\* the application calls entity.remove() on the instance it has loaded
StartRemove(p) ==
  /\ pc[p] = "idle"
  /\ db # Null
  /\ ncalls < MaxCalls
  /\ ncalls' = ncalls + 1
  /\ frame' = [frame EXCEPT ![p] = [NoFrame EXCEPT !.op = "remove", !.v = db]]
  /\ pc' = [pc EXCEPT ![p] = "ent"]
  /\ UNCHANGED <<engineVars, memVars, call, loc, result, hist, db, subscribed,
                 transactionCache, arg>>

\* the entity-layer method resumes after an await (or starts): it makes its next
\* awaited call, or returns the entity when none is left.  The store operations
\* take effect here; an engine call is entered and then runs by the engine's steps
EntStep(p) ==
  /\ frame[p].op # "none"
  /\ pc[p] = "ent" \/ (pc[p] = "done" /\ call[p].op # frame[p].op)
  /\ LET f == frame[p]
         n == f.step + 1
     IN  IF n > Len(Awaits(f))
         THEN /\ pc' = [pc EXCEPT ![p] = "done"]
              /\ call' = [call EXCEPT ![p] = [NoCall EXCEPT !.op = f.op,
                                                !.key = forEntity(TheEntity),
                                                !.value = f.v]]
              /\ loc' = [loc EXCEPT ![p] = NoLoc]
              /\ result' = [result EXCEPT ![p] = Val(f.v)]
              /\ UNCHANGED <<db, frame>>
         ELSE LET a == Awaits(f)[n]
              IN  /\ result' = [result EXCEPT ![p] = NoResult]
                  /\ CASE a.f = "db.save" ->
                            /\ db' = f.v
                            /\ frame' = [frame EXCEPT ![p] =
                                 [f EXCEPT !.step = n, !.prev = db,
                                           !.event = IF db = Null THEN "insert"
                                                     ELSE "update"]]
                            /\ pc' = [pc EXCEPT ![p] = "ent"]
                            /\ UNCHANGED <<call, loc>>
                       [] a.f = "db.remove" ->
                            /\ db' = Null
                            /\ frame' = [frame EXCEPT ![p] =
                                 [f EXCEPT !.step = n, !.prev = db,
                                           !.event = "remove"]]
                            /\ pc' = [pc EXCEPT ![p] = "ent"]
                            /\ UNCHANGED <<call, loc>>
                       [] a.f = "set" ->
                            /\ call' = [call EXCEPT ![p] =
                                 [NoCall EXCEPT !.op = "set", !.key = a.a,
                                                !.ttl = EntityTTL, !.value = f.v]]
                            /\ loc' = [loc EXCEPT ![p] =
                                 [NoLoc EXCEPT !.data = f.v, !.cont = "op",
                                               !.skey = a.a, !.sttl = EntityTTL]]
                            /\ pc' = [pc EXCEPT ![p] = "set"]
                            /\ frame' = [frame EXCEPT ![p].step = n]
                            /\ db' = db
                       [] a.f = "del" ->
                            /\ call' = [call EXCEPT ![p] =
                                 [NoCall EXCEPT !.op = "delete", !.key = a.a]]
                            /\ loc' = [loc EXCEPT ![p] = NoLoc]
                            /\ pc' = [pc EXCEPT ![p] = "del"]
                            /\ frame' = [frame EXCEPT ![p].step = n]
                            /\ db' = db
                       [] OTHER ->
                            /\ call' = [call EXCEPT ![p] =
                                 [NoCall EXCEPT !.op = "invalidatePattern",
                                                !.key = a.a]]
                            /\ loc' = [loc EXCEPT ![p] = NoLoc]
                            /\ pc' = [pc EXCEPT ![p] = "inv"]
                            /\ frame' = [frame EXCEPT ![p].step = n]
                            /\ db' = db
  /\ UNCHANGED <<engineVars, memVars, hist, ncalls, subscribed, transactionCache, arg>>

\* the application takes the entity a finished save / remove returned
EntAgain(p) ==
  /\ pc[p] = "done"
  /\ frame[p].op # "none"
  /\ call[p].op = frame[p].op
  /\ ncalls < MaxCalls
  /\ pc' = [pc EXCEPT ![p] = "idle"]
  /\ call' = [call EXCEPT ![p] = NoCall]
  /\ loc' = [loc EXCEPT ![p] = NoLoc]
  /\ result' = [result EXCEPT ![p] = NoResult]
  /\ hist' = [hist EXCEPT ![p] = NoHist]
  /\ frame' = [frame EXCEPT ![p] = NoFrame]
  /\ UNCHANGED <<engineVars, memVars, ncalls, db, subscribed, transactionCache, arg>>

\* E.findByIdWithCache(1): readThrough(forEntity(dummyInstance),
\* () => repository.findOne({where: {id}}), cacheOptions.ttl)
StartFindByIdWithCache(p) ==
  /\ pc[p] = "idle"
  /\ call' = [call EXCEPT ![p] = [NoCall EXCEPT !.op = "readThrough",
                                    !.key = forEntity(TheEntity), !.ttl = EntityTTL,
                                    !.startTime = now]]
  /\ pc' = [pc EXCEPT ![p] = "rt_get"]
  /\ loc' = loc
  /\ StartFrame(p)

\* E.findWithCache(): readThrough(forFind(name, {}), () => repository.find(),
\* cacheOptions.ttl)
StartFindWithCache(p) ==
  /\ pc[p] = "idle"
  /\ call' = [call EXCEPT ![p] = [NoCall EXCEPT !.op = "readThrough",
                                    !.key = forFind("E"), !.ttl = EntityTTL,
                                    !.startTime = now]]
  /\ pc' = [pc EXCEPT ![p] = "rt_get"]
  /\ loc' = loc
  /\ StartFrame(p)

\* the fetchFn of the finders reads the store: repository.findOne resolves to the
\* row or to null, repository.find to the list of rows (an object, also when empty)
FromRepository(p) ==
  /\ ~hist'[p].fetchFailed
  /\ loc'[p].data # Null <=> (call[p].key = forFind("E") \/ db # Null)

\* the application takes the outcome of a finished finder call
FinderAgain(p) == Again(p) /\ frame[p].op = "none"
\* a save / remove of caller p has returned
Finished(p, op) == pc[p] = "done" /\ frame[p].op = op /\ call[p].op = op

\* one caller saves the entity and lists the entities of the class, one call after
\* the other, against a backend that may reject calls; the subscriber may or may
\* not be registered; the engine is configured with a key prefix
InitSave ==
  /\ Constructed
  /\ ~options.stampedeProtection /\ ~options.invalidateRelations
  /\ options.keyPrefix = "app"
  /\ faultsLeft = MaxFaults
NextSave ==
  \/ RegisterSubscriber
  \/ CbTimerFire
  \/ StartSave(Caller) \/ StartFindWithCache(Caller)
  \/ EntStep(Caller) \/ EntAgain(Caller) \/ FinderAgain(Caller)
  \/ SetMain(Caller) \/ SetStale(Caller)
  \/ InvPattern(Caller) \/ InvPatternStale(Caller)
  \/ RtGet(Caller) \/ (RtFetch(Caller) /\ FromRepository(Caller))
SpecSave == InitSave /\ [][NextSave]_vars

\* C27 as stated: after save() of the write-through entity has completed with the
\* breaker closed (no other operation on the entity in progress), the engine's get
\* on the entity's key returns the state just saved, for a first save and for a
\* later save alike.
C27_SaveThenGet ==
  (Finished(Caller, "save") /\ ~cb.open /\ ~hist[Caller].entryOpen)
    => get(forEntity(TheEntity), TRUE).v = frame[Caller].v

\* C27 amended: after save() of the write-through entity has completed with the
\* breaker closed and without a backend call of that save having been rejected,
\* the engine's get on the entity's key returns the state just saved; a second save
\* replaces the cached state with the new one.
C27_SaveThenGet_Accepted ==
  (/\ Finished(Caller, "save") /\ ~cb.open /\ ~hist[Caller].entryOpen
   /\ hist[Caller].caught = 0)
    => get(forEntity(TheEntity), TRUE).v = frame[Caller].v

\* a later save of another state has replaced the cached state
C27_Witness ==
  /\ Finished(Caller, "save") /\ ~cb.open /\ ~hist[Caller].entryOpen
  /\ hist[Caller].caught = 0
  /\ frame[Caller].event = "update" /\ frame[Caller].prev # frame[Caller].v
  /\ get(forEntity(TheEntity), TRUE).v = frame[Caller].v

\* C29: after save() has updated the entity (the backend has failed no call, no
\* other call is in progress), no cache key matches `E:find:*`.
C29_NoFindKeyAfterUpdate ==
  (/\ Finished(Caller, "save") /\ frame[Caller].event = "update"
   /\ faultsLeft = MaxFaults)
    => \A k \in DOMAIN store : ~MatchesPattern(k, getFullKey(patternOf("E", "find")))

\* no call of caller q is in progress (an engine call that has returned inside a
\* save / remove leaves that save / remove in progress)
AtRest(q) ==
  \/ pc[q] = "idle"
  \/ pc[q] = "done" /\ (frame[q].op = "none" \/ call[q].op = frame[q].op)

\* remove() concurrent with findByIdWithCache(1) calls, against a healthy backend;
\* the entity is saved while no other call is in progress
InitRemove ==
  /\ Healthy
  /\ ~options.staleWhileRevalidate /\ ~options.circuitBreaker
  /\ ~options.invalidateRelations /\ options.keyPrefix = ""
NextRemove ==
  \/ RegisterSubscriber
  \/ \E p \in Procs :
       \/ StartSave(p) /\ \A q \in Procs : AtRest(q)
       \/ StartRemove(p) /\ \A q \in Procs : frame[q].op # "save"
       \/ StartFindByIdWithCache(p) /\ \A q \in Procs : frame[q].op # "save"
       \/ EntStep(p) \/ EntAgain(p) \/ FinderAgain(p)
       \/ SetMain(p) \/ DelMain(p) \/ InvPattern(p)
       \/ RtGet(p) \/ (RtFetch(p) /\ FromRepository(p))
       \/ AcqExists(p) \/ AcqSet(p) \/ LkGet(p) \/ (LkFetch(p) /\ FromRepository(p))
       \/ Release(p) \/ (LfFetch(p) /\ FromRepository(p))
SpecRemove == InitRemove /\ [][NextRemove]_vars

\* C28: once remove() of the entity has completed and every read in flight has
\* finished (the row is gone and no call is in progress), the cache holds no
\* entry under the entity's key, however remove() and the concurrent
\* findByIdWithCache calls for the id were interleaved.
C28_NoEntryAfterRemove ==
  (/\ \E p \in Procs : Finished(p, "remove")
   /\ db = Null
   /\ \A q \in Procs : AtRest(q))
    => ~ProviderExists(store, getFullKey(forEntity(TheEntity)))


(* ------------------------ fetch count per call -------------------------- *)
\* C32: a single readThrough call invokes the fetch callback at most once, on every
\* path (hit, miss, lock failure, backend error, fetch error, breaker open or
\* opening during the call).
C32_FetchAtMostOnce ==
  \A p \in Procs : call[p].op = "readThrough" => hist[p].fetches <= 1


(* -------------------- what advances the circuit breaker ----------------- *)
\* C33: only cache-backend errors advance the circuit breaker: the step in which
\* the fetch callback of readThrough fails, or the persist call of writeThrough
\* fails, leaves the breaker's error count and the breaker state unchanged.
C33_OnlyBackendErrorsCount ==
  [][\A p \in Procs :
       ( \/ /\ pc[p] = "rt_fetch"
            /\ hist'[p].fetchFailed /\ ~hist[p].fetchFailed
         \/ /\ pc[p] = "wt_persist"
            /\ hist'[p].persisted = "failed" )
       => cb' = cb]_vars


(* ----------------------- circuit breaker invariants --------------------- *)
\* C34: with the breaker enabled and threshold >= 1, the breaker is open if and only
\* if its reset timer is pending (openCircuitBreaker returns early while open, so one
\* timer at most); while it is closed the error count is below the threshold; the
\* error count goes down only in the step that closes the breaker, and then to zero
\* (a successful backend operation does not reset it).
C34_BreakerInvariant ==
  /\ [](cb.open <=> cb.timer)
  /\ [](~cb.open => cb.errors < Threshold)
  /\ [][cb'.errors < cb.errors
          => (cb.open /\ ~cb'.open /\ cb'.errors = 0)]_vars

\* C34 witness: the breaker is closed with an error on its count while a get has
\* been answered by the backend without failure
C34_Witness ==
  /\ ~cb.open /\ ~cb.timer
  /\ cb.errors > 0
  /\ \E p \in Procs :
       /\ Done(p, "get") /\ hist[p].touched /\ hist[p].caught = 0
       /\ result[p].kind = "value" /\ result[p].v # Null


(* --------------------------- shadows of entries ------------------------- *)
\* values the application stores, one after the other, under the same key
ShadowValues == {100, 101}

\* no rejection of the backend has been swallowed below the engine so far: every
\* rejection was counted by a catch block of set, delete or invalidatePattern (a
\* failed key listing inside deletePattern is not: it reports 0 keys)
NoSwallowedFailure == statistics.errors = MaxFaults - faultsLeft

\* set, delete and invalidatePattern called one after the other (each awaited before
\* the next) with staleWhileRevalidate, the backend rejecting some calls
InitShadow ==
  /\ Init
  /\ options.staleWhileRevalidate
  /\ ~options.stampedeProtection /\ ~options.invalidateRelations
NextShadow ==
  \/ StartSetOf(Caller, ShadowValues) \/ StartDelete(Caller)
  \/ StartInvalidatePattern(Caller)
  \/ SetMain(Caller) \/ SetStale(Caller) \/ DelMain(Caller) \/ DelStale(Caller)
  \/ InvPattern(Caller) \/ InvPatternStale(Caller)
  \/ Again(Caller)
  \/ CbTimerFire
SpecShadow == InitShadow /\ [][NextShadow]_vars

\* C35: with staleWhileRevalidate, a set(k, v, ttl) that succeeded (breaker closed,
\* no rejection) leaves the entry of k and a shadow of k holding the same v whose TTL
\* is the entry's TTL plus staleTTL (300), so the shadow outlives the entry; after a
\* delete(k), or an invalidatePattern matching k, that succeeded neither the entry
\* nor its shadow exists.
C35_ShadowFollows ==
  LET k == getFullKey(call[Caller].key)
      ttl == cacheTTL(call[Caller].ttl)
  IN  ( /\ pc[Caller] = "done" /\ hist[Caller].caught = 0
        /\ ~hist[Caller].entryOpen /\ NoSwallowedFailure )
      => /\ call[Caller].op = "set" =>
              /\ k \in DOMAIN store /\ ("stale:" \o k) \in DOMAIN store
              /\ store[k] = [v |-> call[Caller].value, ttl |-> ttl]
              /\ store["stale:" \o k]
                   = [v |-> call[Caller].value, ttl |-> ttl + DefaultStaleTTL]
              /\ store["stale:" \o k].ttl > store[k].ttl
         /\ call[Caller].op = "delete" =>
              /\ k \notin DOMAIN store /\ ("stale:" \o k) \notin DOMAIN store
         /\ call[Caller].op = "invalidatePattern" =>
              \A x \in DOMAIN store :
                /\ ~MatchesPattern(x, k)
                /\ ~MatchesPattern(x, "stale:" \o k)

\* C35 witness: a set has replaced an entry and its shadow that held another value
\* with another ttl, after a delete had removed both
C35_Witness ==
  /\ pc[Caller] = "done" /\ call[Caller].op = "set" /\ hist[Caller].caught = 0
  /\ ~hist[Caller].entryOpen
  /\ statistics.writes = 2 /\ statistics.deletes = 1
  /\ call[Caller].value = 101 /\ call[Caller].ttl = 60
  /\ ("stale:" \o getFullKey(call[Caller].key)) \in DOMAIN store
  /\ store["stale:" \o getFullKey(call[Caller].key)] = [v |-> 101, ttl |-> 360]


(* ------------------------ lock keys and data keys ----------------------- *)
\* keys and patterns the application passes to delete and invalidatePattern
UserKeys == {"k", "lock:fetch:k"}
UserPatterns == {"k*", "lock:*"}

\* the lock entries of store s: the keys CacheLock.getLockKey builds
LockEntries(s) ==
  [x \in {y \in DOMAIN s : Len(y) >= 5 /\ SubSeq(y, 1, 5) = "lock:"} |-> s[x]]

\* the data operations of the engine
DataOps == {"delete", "invalidatePattern"}

\* readThrough calls with stampede protection next to delete and invalidatePattern
\* calls, against a backend that rejects no call
InitDisjoint ==
  /\ Healthy
  /\ options.stampedeProtection
  /\ ~options.invalidateRelations /\ ~options.circuitBreaker
NextDisjoint ==
  \E p \in Procs :
    \/ StartReadThrough(p)
    \/ RtGet(p) \/ AcqExists(p) \/ AcqSet(p) \/ LkGet(p) \/ LkFetch(p)
    \/ SetMain(p) \/ SetStale(p) \/ Release(p) \/ LfStale(p) \/ LfFetch(p)
    \/ StartDeleteOf(p, UserKeys) \/ StartInvalidatePatternOf(p, UserPatterns)
    \/ DelMain(p) \/ DelStale(p) \/ InvPattern(p) \/ InvPatternStale(p)
SpecDisjoint == InitDisjoint /\ [][NextDisjoint]_vars

\* C36: lock keys and data keys are disjoint: no step of a data operation of the
\* engine, whatever key or pattern the application passed, creates, overwrites or
\* removes a lock key, so a held lock stays held until it is released or expires.
C36_LockKeysUntouched ==
  [][\A p \in Procs :
       (call[p].op \in DataOps /\ pc'[p] # pc[p])
         => LockEntries(store') = LockEntries(store)]_vars


(* ------------------ expiry timers of the in-process backend ------------- *)
\* ttl arguments of expire (seconds)
ExpireTTLs == {1, 2}

\* MemoryCacheProvider.expire that arms the new timer without clearing the old one
memExpire_NoClear(c, tm, to, k, ttl, t) ==
  IF k \notin DOMAIN c THEN [v |-> FALSE, c |-> c, tm |-> tm, to |-> to]
  ELSE [v  |-> TRUE,
        c  |-> MapSet(c, k, [c[k] EXCEPT !.expiresAt = t + ttl * TicksPerSecond]),
        tm |-> MapSet(tm, k, t + ttl * TicksPerSecond),
        to |-> setTimeout(to, k, t + ttl * TicksPerSecond)]

\* MemoryCacheProvider.expire: false for an absent key; else the existing timer is
\* cleared, entry.expiresAt = Date.now() + ttl * 1000 and a new timer is armed
memExpire(c, tm, to, k, ttl, t) ==
  IF k \notin DOMAIN c THEN [v |-> FALSE, c |-> c, tm |-> tm, to |-> to]
  ELSE [v  |-> TRUE,
        c  |-> MapSet(c, k, [c[k] EXCEPT !.expiresAt = t + ttl * TicksPerSecond]),
        tm |-> MapSet(tm, k, t + ttl * TicksPerSecond),
        to |-> setTimeout(clearTimeouts(to, tm, {k}), k, t + ttl * TicksPerSecond)]

\* MemoryCacheProvider.keys: expired entries met on the way are dropped from the map
\* (their timers stay), the other keys the regex accepts are returned
memKeys(c, pat, t) ==
  [v |-> {k \in DOMAIN c : ~IsExpired(c[k], t) /\ regexTest(pat, k)},
   c |-> [x \in {k \in DOMAIN c : ~IsExpired(c[k], t)} |-> c[x]]]

\* MemoryCacheProvider.flush: every timer of the map is cleared, both maps emptied
memFlush(c, tm, to) ==
  [c |-> << >>, tm |-> << >>, to |-> clearTimeouts(to, tm, DOMAIN tm)]

MemExpire(p) ==
  \E k \in MemKeys, ttl \in ExpireTTLs :
    LET r == memExpire(cache, timers, timeouts, k, ttl, now)
    IN  /\ MemCall(p, [NoCall EXCEPT !.op = "mem.expire", !.key = k, !.ttl = ttl],
                   Bool(r.v))
        /\ cache' = r.c
        /\ timers' = r.tm
        /\ timeouts' = r.to
        /\ lastSet' = IF r.v /\ k \in DOMAIN lastSet
                      THEN MapSet(lastSet, k, [lastSet[k] EXCEPT !.ttl = ttl, !.at = now])
                      ELSE lastSet
        /\ now' = now

MemListKeys(p) ==
  \E pat \in MemPatterns :
    LET r == memKeys(cache, pat, now)
    IN  /\ MemCall(p, [NoCall EXCEPT !.op = "mem.keys", !.key = pat],
                   Num(Cardinality(r.v)))
        /\ cache' = r.c
        /\ UNCHANGED <<timers, timeouts, now, lastSet>>

MemFlush(p) ==
  LET r == memFlush(cache, timers, timeouts)
  IN  /\ MemCall(p, [NoCall EXCEPT !.op = "mem.flush"], Val(Null))
      /\ cache' = r.c
      /\ timers' = r.tm
      /\ timeouts' = r.to
      /\ lastSet' = << >>
      /\ now' = now

\* set, expire, get, keys, delete, deletePattern and flush on one key, one value and
\* two globs, while the clock advances and pending timeouts come due (the calls have
\* no await: one caller makes call after call, the others make one call each)
TimerPatterns == {"a:*", "*:1"}
TimerCallers == {1, 2}
InitTimers == InitMem
NextTimers ==
  \/ \E p \in TimerCallers :
        \/ (MemSet(p) \/ MemExpire(p) \/ MemGet(p) \/ MemDelete(p))
             /\ call'[p].key \in TimedKeys /\ call'[p].value \in {0, 1}
        \/ (MemListKeys(p) \/ MemDeletePattern(p)) /\ call'[p].key \in TimerPatterns
        \/ MemFlush(p)
  \/ Again(Caller)
  \/ \E k \in MemKeys : TimerFire(k)
  \/ Tick
SpecTimers == InitTimers /\ [][NextTimers]_vars

\* C37: in the in-process backend each key has at most one pending expiry timer; a
\* timer that fires removes an entry only when that entry's own expiry instant has
\* come (never one written by a later set or re-timed by a later expire); and an
\* entry without expiry (a set without TTL after a set with TTL) has no timer.
C37_OneTimerPerKey ==
  /\ [](\A x, y \in BagToSet(timeouts) :
          /\ CopiesIn(x, timeouts) = 1
          /\ x.key = y.key => x = y)
  /\ [](\A k \in DOMAIN cache :
          cache[k].expiresAt = 0
            => /\ k \notin DOMAIN timers
               /\ \A x \in BagToSet(timeouts) : x.key # k)
  /\ [][\A k \in DOMAIN cache :
          (pc' = pc /\ k \notin DOMAIN cache')
            => (cache[k].expiresAt # 0 /\ cache[k].expiresAt <= now)]_vars

\* C37 witness: one caller set the key with a ttl of one second, the other set it
\* later without a ttl, and the entry is still there when that second has gone by
C37_Witness ==
  \E p, q \in TimerCallers :
    /\ Done(p, "mem.set") /\ call[p].key = "a:1" /\ call[p].ttl = 1
    /\ Done(q, "mem.set") /\ call[q].key = "a:1" /\ call[q].ttl = 0
    /\ "a:1" \in DOMAIN lastSet /\ lastSet["a:1"].ttl = 0
    /\ now >= lastSet["a:1"].at + TicksPerSecond
    /\ "a:1" \in DOMAIN cache /\ cache["a:1"].expiresAt = 0


(* ------------------------- store transactions --------------------------- *)
\* event.queryRunner?.data?.transactionId || null (Null: the query runner carries
\* no transaction id)
TransactionIds == {Null, 1}

\* a transaction starts, beforeTransactionStart runs
\* (transactionCache.set(transactionId, []) when there is an id), and the
\* application saves a new state of the entity inside it
StartTransaction(p) ==
  /\ pc[p] = "idle"
  /\ ncalls < MaxCalls
  /\ ncalls' = ncalls + 1
  /\ \E v \in EntityStates, tid \in TransactionIds :
       /\ frame' = [frame EXCEPT ![p] = [NoFrame EXCEPT !.op = "transaction", !.v = v,
                                          !.tx = "open", !.tid = tid]]
       /\ transactionCache' = IF tid # Null THEN MapSet(transactionCache, tid, << >>)
                              ELSE transactionCache
  /\ pc' = [pc EXCEPT ![p] = "ent"]
  /\ UNCHANGED <<engineVars, memVars, call, loc, result, hist, db, subscribed, arg>>

\* the transaction ends.  Rollback: the store takes its former state back and
\* afterTransactionRollback drops the operations of the transaction.  Commit:
\* afterTransactionCommit applies the operations recorded for the transaction, one
\* awaited engine call after the other, then drops them
EndTransaction(p) ==
  /\ Finished(p, "transaction")
  /\ LET f == frame[p]
     IN  IF f.tx = "open"
         THEN \E commit \in BOOLEAN :
                IF ~commit
                THEN /\ db' = f.prev
                     /\ transactionCache' = MapDelete(transactionCache, f.tid)
                     /\ frame' = [frame EXCEPT ![p].tx = "rolledback"]
                     /\ UNCHANGED <<pc, call>>
                ELSE IF f.tid \in DOMAIN transactionCache
                        /\ Len(transactionCache[f.tid]) > 0
                THEN /\ frame' = [frame EXCEPT ![p].tx = "committing"]
                     /\ pc' = [pc EXCEPT ![p] = "ent"]
                     /\ call' = [call EXCEPT ![p] = NoCall]
                     /\ UNCHANGED <<db, transactionCache>>
                ELSE /\ transactionCache' = MapDelete(transactionCache, f.tid)
                     /\ frame' = [frame EXCEPT ![p].tx = "committed"]
                     /\ UNCHANGED <<db, pc, call>>
         ELSE /\ f.tx = "committing"
              /\ transactionCache' = MapDelete(transactionCache, f.tid)
              /\ frame' = [frame EXCEPT ![p].tx = "committed"]
              /\ UNCHANGED <<db, pc, call>>
  /\ UNCHANGED <<engineVars, memVars, loc, result, hist, ncalls, subscribed, arg>>

\* one caller saves the entity in transactions that commit or roll back, one after
\* the other, with the subscriber registered or not, against a backend that rejects
\* no call
InitTransaction ==
  /\ Healthy
  /\ ~options.stampedeProtection /\ ~options.invalidateRelations
  /\ ~options.circuitBreaker
  /\ options.keyPrefix = "app"
NextTransaction ==
  \/ RegisterSubscriber
  \/ StartTransaction(Caller) \/ EndTransaction(Caller)
  \/ EntStep(Caller)
  \/ EntAgain(Caller) /\ frame[Caller].tx \in {"committed", "rolledback"}
  \/ SetMain(Caller) \/ SetStale(Caller)
  \/ InvPattern(Caller) \/ InvPatternStale(Caller)
SpecTransaction == InitTransaction /\ [][NextTransaction]_vars

\* C38: the cache mutations caused by the entity events of a transaction are applied
\* only when the transaction commits: no step taken while the transaction is open
\* changes the cache, and a rollback applies none of them.
C38_AppliedOnCommit ==
  [][\A p \in Procs :
       frame[p].tx \in {"open", "rolledback"} => store' = store]_vars


(* ---------------------- entities that are not cacheable ----------------- *)
\* the keys under which warmCache stores the cacheable entities of list es
WarmKeys(es) ==
  {getFullKey(forEntity(es[i])) : i \in {j \in DOMAIN es : es[j].cacheable}}

\* concurrent writeThrough and warmCache calls with cacheable and non-cacheable
\* entities that have an id (one caller passes a ttl or omits it, the others omit it)
InitPass == InitOps
NextPass ==
  \/ \E p \in Procs :
       \/ /\ StartWriteThrough(p)
          /\ call'[p].entity.id = 1
          /\ call'[p].ttl = 0 \/ p = 1
       \/ WtPersist(p) \/ SetMain(p) \/ SetStale(p)
       \/ /\ StartWarmCache(p)
          /\ \A i \in DOMAIN call'[p].entities : call'[p].entities[i].id = 1
          /\ call'[p].ttl = 0
       \/ warmCache(p)
  \/ CbTimerFire
SpecPass == InitPass /\ [][NextPass]_vars

\* C39: an entity that is not cacheable is passed through: no step of a writeThrough
\* call for it calls the cache backend or changes the cache or the writes counter,
\* and once persisted the saved entity is returned; warmCache skips it: it changes
\* only the entries of the cacheable entities of its list, counts only those as
\* writes, and with no cacheable entity in the list makes no backend call at all.
C39_PassThrough ==
  [][\A p \in Procs :
       /\ ( /\ call[p].op = "writeThrough" /\ ~call[p].entity.cacheable
            /\ pc'[p] # pc[p] )
          => /\ store' = store /\ faultsLeft' = faultsLeft
             /\ statistics'.writes = statistics.writes
             /\ ~hist'[p].touched
             /\ hist'[p].persisted = "ok"
                  => (pc'[p] = "done" /\ result'[p] = Val(call[p].value))
       /\ (pc[p] = "warm" /\ pc'[p] # pc[p])
          => /\ \A x \in DOMAIN store' :
                  (x \notin DOMAIN store \/ store'[x] # store[x])
                    => x \in WarmKeys(call[p].entities)
             /\ DOMAIN store \subseteq DOMAIN store'
             /\ statistics'.writes - statistics.writes
                  <= Cardinality(WarmKeys(call[p].entities))
             /\ WarmKeys(call[p].entities) = {}
                  => /\ store' = store /\ statistics' = statistics
                     /\ faultsLeft' = faultsLeft /\ ~hist'[p].touched]_vars

\* C39 witness: a writeThrough call has returned the saved entity that is not
\* cacheable and a warmCache call has finished on a list holding a cacheable and a
\* non-cacheable entity, with one entry written
C39_Witness ==
  \E p, q \in Procs :
    /\ Done(p, "writeThrough") /\ ~call[p].entity.cacheable
    /\ call[p].entity.id = 1
    /\ result[p] = Val(call[p].value)
    /\ Done(q, "warmCache") /\ result[q] = Val(Null)
    /\ \E i, j \in DOMAIN call[q].entities :
         /\ call[q].entities[i].cacheable /\ call[q].entities[i].id = 1
         /\ ~call[q].entities[j].cacheable /\ call[q].entities[j].id = 1
    /\ statistics.writes = 1
    /\ DOMAIN store = WarmKeys(call[q].entities)


(* ---------------------------- sample windows ---------------------------- *)
\* how many samples each window holds when the calls below begin
Prefills == {0, WindowSize - 1, WindowSize}

\* how many calls are made and how far the clock advances below
WindowCalls == 3
WindowTime == 3

\* the window after n recorded calls of which the first took one tick, the rest none
Prefilled(n) == [i \in 1..n |-> IF i = 1 THEN 1 ELSE 0]

\* a caller calls resetStatistics() (synchronous)
ResetStatistics(p) ==
  /\ pc[p] = "idle"
  /\ ncalls < MaxCalls
  /\ ncalls' = ncalls + 1
  /\ call' = [call EXCEPT ![p] = [NoCall EXCEPT !.op = "resetStatistics"]]
  /\ pc' = [pc EXCEPT ![p] = "done"]
  /\ result' = [result EXCEPT ![p] = Val(Null)]
  /\ statistics' = resetStatistics
  /\ UNCHANGED <<options, store, cb, loc, hist, fetchCount, faultsLeft, expired,
                 memVars, entVars>>

\* readThrough, writeThrough and resetStatistics called one after the other, the
\* clock advancing while the source of truth is read or written, on an engine that
\* has served n readThrough calls whose fetch found nothing and as many writeThrough
\* calls of entities that are not cacheable (the call budget counts from here)
InitWindow ==
  /\ options \in {[LockOptions EXCEPT !.stampedeProtection = b] : b \in BOOLEAN}
  /\ \E n \in Prefills, m \in Prefills :
       /\ n = m
       /\ statistics =
            [resetStatistics EXCEPT
               !.misses = n,
               !.loadTimes = Prefilled(n),
               !.averageLoadTime = IF n = 0 THEN @ ELSE average(Prefilled(n)),
               !.writeTimes = Prefilled(m),
               !.averageWriteTime = IF m = 0 THEN @ ELSE average(Prefilled(m))]
       /\ fetchCount = n
       /\ now = IF n + m = 0 THEN 0 ELSE 1
  /\ store = << >>
  /\ cb = [open |-> FALSE, errors |-> 0, timer |-> FALSE]
  /\ pc = [p \in Procs |-> "idle"]
  /\ call = [p \in Procs |-> NoCall]
  /\ loc = [p \in Procs |-> NoLoc]
  /\ result = [p \in Procs |-> NoResult]
  /\ hist = [p \in Procs |-> NoHist]
  /\ faultsLeft = 0
  /\ expired = {}
  /\ ncalls = 0
  /\ cache = << >>
  /\ timers = << >>
  /\ timeouts = EmptyBag
  /\ lastSet = << >>
  /\ db = Null
  /\ subscribed = FALSE
  /\ frame = [p \in Procs |-> NoFrame]
  /\ transactionCache = << >>
  /\ arg = [p \in Procs |-> NoArg]
NextWindow ==
  \/ StartReadThrough(Caller) /\ call'[Caller].ttl = 0 /\ ncalls' <= WindowCalls
  \/ RtGet(Caller) \/ AcqExists(Caller) \/ AcqSet(Caller) \/ LkGet(Caller)
  \/ LkFetch(Caller) \/ Release(Caller) \/ RtFetch(Caller)
  \/ /\ StartWriteThrough(Caller)
     /\ call'[Caller].ttl = 0 /\ call'[Caller].entity.id = 1
     /\ ncalls' <= WindowCalls
  \/ WtPersist(Caller)
  \/ SetMain(Caller)
  \/ ResetStatistics(Caller) /\ ncalls' <= WindowCalls
  \/ Again(Caller)
  \/ Tick /\ pc[Caller] \in {"rt_fetch", "lk_fetch", "wt_persist"} /\ now' <= WindowTime
SpecWindow == InitWindow /\ [][NextWindow]_vars

\* the average a is the mean of the window w (0 for an empty window)
MeanOf(a, w) ==
  IF w = << >> THEN a.num = 0 ELSE a.num * Len(w) = SumSeq(w) * a.den

\* from window w to window w2: nothing, or emptied, or one sample more at the end
\* and, if w was full, its oldest sample gone
Slides(w, w2) ==
  \/ w2 = w
  \/ w2 = << >>
  \/ /\ w2 # << >>
     /\ w2 = IF Len(w) >= WindowSize THEN Append(Tail(w), w2[Len(w2)])
             ELSE Append(w, w2[Len(w2)])

\* C40: the load-time and the write-time window never hold more than 100 samples;
\* a sample recorded into a full window evicts the oldest; averageLoadTime and
\* averageWriteTime are the means of the samples in their windows; resetStatistics
\* empties both windows and zeroes hits, misses, writes, deletes, errors, hitRate
\* and both averages.
C40_Windows ==
  /\ [](/\ Len(statistics.loadTimes) <= WindowSize
        /\ Len(statistics.writeTimes) <= WindowSize
        /\ MeanOf(statistics.averageLoadTime, statistics.loadTimes)
        /\ MeanOf(statistics.averageWriteTime, statistics.writeTimes))
  /\ [][/\ Slides(statistics.loadTimes, statistics'.loadTimes)
        /\ Slides(statistics.writeTimes, statistics'.writeTimes)
        /\ (pc[Caller] = "idle" /\ call'[Caller].op = "resetStatistics")
             => /\ statistics'.loadTimes = << >> /\ statistics'.writeTimes = << >>
                /\ statistics'.hits = 0 /\ statistics'.misses = 0
                /\ statistics'.writes = 0 /\ statistics'.deletes = 0
                /\ statistics'.errors = 0 /\ statistics'.hitRate.num = 0
                /\ statistics'.averageLoadTime.num = 0
                /\ statistics'.averageWriteTime.num = 0]_vars

\* C40 witness: both windows were full, the 101st load and the 101st write sample
\* (of two ticks and of none) have pushed out the oldest sample of their window
C40_Witness ==
  /\ pc[Caller] = "done" /\ call[Caller].op = "writeThrough"
  /\ statistics.misses = WindowSize + 1
  /\ Len(statistics.loadTimes) = WindowSize /\ Len(statistics.writeTimes) = WindowSize
  /\ statistics.loadTimes[1] = 0 /\ statistics.loadTimes[WindowSize] = 2
  /\ statistics.writeTimes[1] = 0 /\ statistics.writeTimes[WindowSize] = 0
  /\ statistics.averageLoadTime = [num |-> 2, den |-> WindowSize]
  /\ statistics.averageWriteTime = [num |-> 0, den |-> WindowSize]


(* ------------------------ keys of hashed option objects ------------------ *)
\* JavaScript values: undefined, a number, an array (its items in order, keyed ""),
\* an object (its properties in insertion order)
JUndefined == [t |-> "undefined", n |-> 0, items |-> << >>]
JNum(n) == [t |-> "number", n |-> n, items |-> << >>]
JArr(vs) == [t |-> "array", n |-> 0,
             items |-> [i \in DOMAIN vs |-> [key |-> "", value |-> vs[i]]]]
JObj(ps) == [t |-> "object", n |-> 0, items |-> ps]
Prop(k, v) == [key |-> k, value |-> v]

\* the property names of the option objects, in the order of Array.prototype.sort
PropertyNames == <<"a", "b">>

\* obj[key]
ValueOf(obj, k) ==
  LET i == CHOOSE j \in DOMAIN obj.items : obj.items[j].key = k
  IN  obj.items[i].value

\* sortObject that copies the properties in the order it finds them
sortObject_Unsorted(obj) == obj

RECURSIVE sortObject(_)
\* CacheKeyGenerator.sortObject(obj): arrays keep their order, the properties of an
\* object are inserted in the order of Object.keys(obj).sort(), every value sorted
sortObject(obj) ==
  IF obj.t = "array"
  THEN [obj EXCEPT !.items =
          [i \in DOMAIN obj.items |-> Prop("", sortObject(obj.items[i].value))]]
  ELSE IF obj.t = "object"
  THEN LET has == {obj.items[i].key : i \in DOMAIN obj.items}
           keys == SelectSeq(PropertyNames, LAMBDA k : k \in has)
       IN  [obj EXCEPT !.items =
              [i \in DOMAIN keys |-> Prop(keys[i], sortObject(ValueOf(obj, keys[i])))]]
  ELSE obj

RECURSIVE stringify(_)
\* JSON.stringify(v) of a number, an array or an object: the properties in insertion
\* order
stringify(v) ==
  IF v.t = "number" THEN ToString(v.n)
  ELSE IF v.t = "array"
  THEN "[" \o Join([i \in DOMAIN v.items |-> stringify(v.items[i].value)], ",") \o "]"
  ELSE "{" \o Join([i \in DOMAIN v.items |->
                      "\"" \o v.items[i].key \o "\":" \o stringify(v.items[i].value)],
                   ",") \o "}"

\* createHash('sha256').update(str).digest('hex').substring(0, 16), on the strings
\* that the option objects below are written as
createHash(str) ==
  CASE str = "{\"a\":1,\"b\":1}" -> "4dad51ac41eb7386"
    [] str = "{\"a\":1,\"b\":[1,2]}" -> "8baa73198470c7bb"
    [] str = "{\"a\":1,\"b\":[2,1]}" -> "e9d26fb0100c3f9e"
    [] str = "{\"a\":1,\"b\":{\"a\":1,\"b\":1}}" -> "04fe2a5c50cd1223"
    [] str = "{\"a\":1,\"b\":{\"a\":1}}" -> "fbc9d38852fcf72a"
    [] str = "{\"a\":1,\"b\":{\"b\":1,\"a\":1}}" -> "f4cb0e70103f2f2e"
    [] str = "{\"a\":1}" -> "015abd7f5cc57a2d"
    [] str = "{\"a\":[1,2],\"b\":1}" -> "94a786c3662bc7be"
    [] str = "{\"a\":[1,2],\"b\":[1,2]}" -> "035a3e78d4ab5c70"
    [] str = "{\"a\":[1,2],\"b\":[2,1]}" -> "03953d6471f8db0e"
    [] str = "{\"a\":[1,2],\"b\":{\"a\":1,\"b\":1}}" -> "2e49438a28f22d1a"
    [] str = "{\"a\":[1,2],\"b\":{\"a\":1}}" -> "08ed84788afeb135"
    [] str = "{\"a\":[1,2],\"b\":{\"b\":1,\"a\":1}}" -> "7a17662f86a2d24a"
    [] str = "{\"a\":[1,2]}" -> "01530d164d479cf0"
    [] str = "{\"a\":[2,1],\"b\":1}" -> "96cdeb5c78442219"
    [] str = "{\"a\":[2,1],\"b\":[1,2]}" -> "374430a736796c8a"
    [] str = "{\"a\":[2,1],\"b\":[2,1]}" -> "c5f7f219b157676b"
    [] str = "{\"a\":[2,1],\"b\":{\"a\":1,\"b\":1}}" -> "75c10690bbd6214e"
    [] str = "{\"a\":[2,1],\"b\":{\"a\":1}}" -> "784745acda805d23"
    [] str = "{\"a\":[2,1],\"b\":{\"b\":1,\"a\":1}}" -> "34b549026e4f8ab2"
    [] str = "{\"a\":[2,1]}" -> "439e3fbf35fa867d"
    [] str = "{\"a\":{\"a\":1,\"b\":1},\"b\":1}" -> "02b10026f6744f32"
    [] str = "{\"a\":{\"a\":1,\"b\":1},\"b\":[1,2]}" -> "074fa24e3a8b3813"
    [] str = "{\"a\":{\"a\":1,\"b\":1},\"b\":[2,1]}" -> "4508adb9ab88dcdf"
    [] str = "{\"a\":{\"a\":1,\"b\":1},\"b\":{\"a\":1,\"b\":1}}" -> "dcbc6847aa1de579"
    [] str = "{\"a\":{\"a\":1,\"b\":1},\"b\":{\"a\":1}}" -> "09c844d4298d5506"
    [] str = "{\"a\":{\"a\":1,\"b\":1},\"b\":{\"b\":1,\"a\":1}}" -> "d94ab7fe0b0dbaad"
    [] str = "{\"a\":{\"a\":1,\"b\":1}}" -> "e676f773a15e6a23"
    [] str = "{\"a\":{\"a\":1},\"b\":1}" -> "49a900d1e77b54a6"
    [] str = "{\"a\":{\"a\":1},\"b\":[1,2]}" -> "10669e3b24be1837"
    [] str = "{\"a\":{\"a\":1},\"b\":[2,1]}" -> "20304b5249c47a19"
    [] str = "{\"a\":{\"a\":1},\"b\":{\"a\":1,\"b\":1}}" -> "e66395b03ebf0643"
    [] str = "{\"a\":{\"a\":1},\"b\":{\"a\":1}}" -> "6de8376f45c401f1"
    [] str = "{\"a\":{\"a\":1},\"b\":{\"b\":1,\"a\":1}}" -> "aac408b693bcf7bf"
    [] str = "{\"a\":{\"a\":1}}" -> "8ff02e5149229839"
    [] str = "{\"a\":{\"b\":1,\"a\":1},\"b\":1}" -> "b0a8f695533bccd4"
    [] str = "{\"a\":{\"b\":1,\"a\":1},\"b\":[1,2]}" -> "75c83a4d42ef5169"
    [] str = "{\"a\":{\"b\":1,\"a\":1},\"b\":[2,1]}" -> "c22ad60eab049c37"
    [] str = "{\"a\":{\"b\":1,\"a\":1},\"b\":{\"a\":1,\"b\":1}}" -> "8b6b605aff4804cd"
    [] str = "{\"a\":{\"b\":1,\"a\":1},\"b\":{\"a\":1}}" -> "14c4e8f1725c74b4"
    [] str = "{\"a\":{\"b\":1,\"a\":1},\"b\":{\"b\":1,\"a\":1}}" -> "f5dce0674e855fb2"
    [] str = "{\"a\":{\"b\":1,\"a\":1}}" -> "fa6750f1f30f8551"
    [] str = "{\"b\":1,\"a\":1}" -> "d347334b81cc0a6a"
    [] str = "{\"b\":1,\"a\":[1,2]}" -> "fcfeeb3dc4dffb4f"
    [] str = "{\"b\":1,\"a\":[2,1]}" -> "f6f8159d2f7a0a17"
    [] str = "{\"b\":1,\"a\":{\"a\":1,\"b\":1}}" -> "420774f4d8c185e7"
    [] str = "{\"b\":1,\"a\":{\"a\":1}}" -> "89b86f47d4ff1fe3"
    [] str = "{\"b\":1,\"a\":{\"b\":1,\"a\":1}}" -> "212bda60bb18067b"
    [] str = "{\"b\":1}" -> "eb8ed3ccb5023093"
    [] str = "{\"b\":[1,2],\"a\":1}" -> "0931e1c6ba1af698"
    [] str = "{\"b\":[1,2],\"a\":[1,2]}" -> "de5338b2c3633280"
    [] str = "{\"b\":[1,2],\"a\":[2,1]}" -> "584ea0c78e08bc10"
    [] str = "{\"b\":[1,2],\"a\":{\"a\":1,\"b\":1}}" -> "ee1124c48f7ee29c"
    [] str = "{\"b\":[1,2],\"a\":{\"a\":1}}" -> "4f6496f055c2e5a9"
    [] str = "{\"b\":[1,2],\"a\":{\"b\":1,\"a\":1}}" -> "27d1efee503040ca"
    [] str = "{\"b\":[1,2]}" -> "327e7b65c353d7a4"
    [] str = "{\"b\":[2,1],\"a\":1}" -> "74f5d5cccabd43ad"
    [] str = "{\"b\":[2,1],\"a\":[1,2]}" -> "d48e8d63cb89992a"
    [] str = "{\"b\":[2,1],\"a\":[2,1]}" -> "7362951b92e6121e"
    [] str = "{\"b\":[2,1],\"a\":{\"a\":1,\"b\":1}}" -> "cf38dae1d922b03e"
    [] str = "{\"b\":[2,1],\"a\":{\"a\":1}}" -> "6e599ccff40b47aa"
    [] str = "{\"b\":[2,1],\"a\":{\"b\":1,\"a\":1}}" -> "6d6066319814a950"
    [] str = "{\"b\":[2,1]}" -> "fe90d89922d7ae38"
    [] str = "{\"b\":{\"a\":1,\"b\":1},\"a\":1}" -> "d06a6dde03c0fe99"
    [] str = "{\"b\":{\"a\":1,\"b\":1},\"a\":[1,2]}" -> "90146820c53becdc"
    [] str = "{\"b\":{\"a\":1,\"b\":1},\"a\":[2,1]}" -> "4f2a2c174f2b5872"
    [] str = "{\"b\":{\"a\":1,\"b\":1},\"a\":{\"a\":1,\"b\":1}}" -> "cac3af87319bb25a"
    [] str = "{\"b\":{\"a\":1,\"b\":1},\"a\":{\"a\":1}}" -> "cb261a32cdc7a9c4"
    [] str = "{\"b\":{\"a\":1,\"b\":1},\"a\":{\"b\":1,\"a\":1}}" -> "794e3f0bbec431a5"
    [] str = "{\"b\":{\"a\":1,\"b\":1}}" -> "7f061ea897615797"
    [] str = "{\"b\":{\"a\":1},\"a\":1}" -> "b6713930835f44a5"
    [] str = "{\"b\":{\"a\":1},\"a\":[1,2]}" -> "f8fb3426c3db84b2"
    [] str = "{\"b\":{\"a\":1},\"a\":[2,1]}" -> "ad18a9a5878aff8b"
    [] str = "{\"b\":{\"a\":1},\"a\":{\"a\":1,\"b\":1}}" -> "4f2a5bb79e96154f"
    [] str = "{\"b\":{\"a\":1},\"a\":{\"a\":1}}" -> "cd556245fb8641d0"
    [] str = "{\"b\":{\"a\":1},\"a\":{\"b\":1,\"a\":1}}" -> "901bb34d5589bdb0"
    [] str = "{\"b\":{\"a\":1}}" -> "e0e3e858afa00494"
    [] str = "{\"b\":{\"b\":1,\"a\":1},\"a\":1}" -> "169bbb682b89d7cd"
    [] str = "{\"b\":{\"b\":1,\"a\":1},\"a\":[1,2]}" -> "06befa6268363bcc"
    [] str = "{\"b\":{\"b\":1,\"a\":1},\"a\":[2,1]}" -> "030b4201f8b35fa3"
    [] str = "{\"b\":{\"b\":1,\"a\":1},\"a\":{\"a\":1,\"b\":1}}" -> "7662a1a67ba94a55"
    [] str = "{\"b\":{\"b\":1,\"a\":1},\"a\":{\"a\":1}}" -> "f7d70b5bcf7f9c6b"
    [] str = "{\"b\":{\"b\":1,\"a\":1},\"a\":{\"b\":1,\"a\":1}}" -> "e2d5e886d4326beb"
    [] str = "{\"b\":{\"b\":1,\"a\":1}}" -> "0e1d1c2bbeac44c2"
    [] str = "{}" -> "44136fa355b3678a"

\* CacheKeyGenerator.hashObject(obj)
hashObjectOf(obj) == createHash(stringify(sortObject(obj)))

\* CacheKeyGenerator.forFind(entityName, options)
forFindOf(name, o) == buildKey(<<name, "find", hashObjectOf(o)>>)

\* CacheKeyGenerator.forPagination(entityName, page, limit, options)
forPagination(name, page, limit, o) ==
  LET optionsHash == IF o.t # "undefined" THEN hashObjectOf(o) ELSE "default"
  IN  buildKey(<<name, "page", ToString(page), ToString(limit), optionsHash>>)

\* CacheKeyGenerator.forCount(entityName, options)
forCount(name, o) ==
  LET optionsHash == IF o.t # "undefined" THEN hashObjectOf(o) ELSE "all"
  IN  buildKey(<<name, "count", optionsHash>>)

\* CacheKeyGenerator.forAggregate(entityName, operation, field, options)
forAggregate(name, operation, field, o) ==
  LET optionsHash == IF o.t # "undefined" THEN hashObjectOf(o) ELSE "all"
  IN  buildKey(<<name, "aggregate", operation, field, optionsHash>>)

\* the option objects handed to the generators: up to two properties, each a number,
\* an array or an object of numbers
NestedObjects ==
  {JObj(<<Prop("a", JNum(1))>>),
   JObj(<<Prop("a", JNum(1)), Prop("b", JNum(1))>>),
   JObj(<<Prop("b", JNum(1)), Prop("a", JNum(1))>>)}
OptionValues ==
  {JNum(1), JArr(<<JNum(1), JNum(2)>>), JArr(<<JNum(2), JNum(1)>>)} \cup NestedObjects
OptionObjects ==
  {JObj(<< >>)}
  \cup {JObj(<<Prop(k, v)>>) : k \in {"a", "b"}, v \in OptionValues}
  \cup {JObj(<<Prop("a", v), Prop("b", w)>>) : v \in OptionValues, w \in OptionValues}
  \cup {JObj(<<Prop("b", v), Prop("a", w)>>) : v \in OptionValues, w \in OptionValues}

Generators == {"forFind", "forCount", "forPagination", "forAggregate"}

\* the key generator g gives for options o (entity E, page 1 of 10, sum of x)
GeneratedKey(g, o) ==
  CASE g = "forFind" -> forFindOf("E", o)
    [] g = "forCount" -> forCount("E", o)
    [] g = "forPagination" -> forPagination("E", 1, 10, o)
    [] OTHER -> forAggregate("E", "sum", "x", o)

\* a caller calls one of the generators with an option object, or, where options are
\* optional, without one: synchronous, returns the key
KeyForOptions(p) ==
  /\ pc[p] = "idle"
  /\ \E g \in Generators, o \in OptionObjects \cup {JUndefined} :
       /\ g = "forFind" => o # JUndefined
       /\ arg' = [arg EXCEPT ![p] = [generator |-> g, options |-> o]]
       /\ call' = [call EXCEPT ![p] = [NoCall EXCEPT !.op = g,
                                         !.key = GeneratedKey(g, o)]]
  /\ pc' = [pc EXCEPT ![p] = "done"]
  /\ UNCHANGED <<engineVars, memVars, loc, result, hist, ncalls, db, subscribed, frame,
                 transactionCache>>

\* keys are generated for option objects, one call after the other
InitHash == InitMem
NextHash == KeyForOptions(Caller) \/ Again(Caller)
SpecHash == InitHash /\ [][NextHash]_vars

RECURSIVE SameProperties(_, _)
\* v and w hold the same properties with the same values, whatever the order the
\* properties were inserted in, at every depth; arrays item by item
SameProperties(v, w) ==
  /\ v.t = w.t /\ v.n = w.n
  /\ v.t = "array" =>
       /\ Len(v.items) = Len(w.items)
       /\ \A i \in DOMAIN v.items : SameProperties(v.items[i].value, w.items[i].value)
  /\ v.t = "object" =>
       /\ {v.items[i].key : i \in DOMAIN v.items} = {w.items[i].key : i \in DOMAIN w.items}
       /\ \A i \in DOMAIN v.items :
            SameProperties(v.items[i].value, ValueOf(w, v.items[i].key))

\* C31: forCount, forFind, forPagination and forAggregate return the same key for
\* every two option objects that hold the same keys and values in a different key
\* order, at any nesting depth (arrays that differ in the order of their elements may
\* get different keys: the witness).
C31_OrderIndependent ==
  (pc[Caller] = "done" /\ call[Caller].op \in Generators)
    => \A o \in OptionObjects :
         SameProperties(arg[Caller].options, o)
           => GeneratedKey(call[Caller].op, o) = call[Caller].key

\* C31 witness: forCount was given {b: [2, 1], a: {b: 1, a: 1}} and returned the key
\* of {a: {a: 1, b: 1}, b: [2, 1]}, which is not the key of {a: {a: 1, b: 1}, b: [1, 2]}
C31_Witness ==
  /\ pc[Caller] = "done" /\ call[Caller].op = "forCount"
  /\ arg[Caller].options
       = JObj(<<Prop("b", JArr(<<JNum(2), JNum(1)>>)),
                Prop("a", JObj(<<Prop("b", JNum(1)), Prop("a", JNum(1))>>))>>)
  /\ call[Caller].key = "E:count:4508adb9ab88dcdf"
  /\ call[Caller].key
       # forCount("E", JObj(<<Prop("a", JObj(<<Prop("a", JNum(1)), Prop("b", JNum(1))>>)),
                             Prop("b", JArr(<<JNum(1), JNum(2)>>))>>))

====
